---------------------------- MODULE Spec2Model ----------------------------
(***************************************************************************)
(* Keypoint job board: the search, filter, ranking and pagination paths of *)
(* routes/jobs.js (GET /, POST /search, GET /company/:companyId), their    *)
(* identity annotations, the background view-count update, and the         *)
(* jobseeker writes of routes/jobseekers.js that the annotations read      *)
(* (POST /apply/:jobId, POST /save-job/:jobId).                            *)
(*                                                                         *)
(* Conventions.                                                            *)
(*  - An optional JavaScript value and a nullable SQL column are a tuple   *)
(*    of length at most one: << >> is undefined / NULL, <<v>> is v.        *)
(*  - A text is a sequence of character codes (1 = "a", 2 = "b", ...); the *)
(*    empty text << >> is the empty string.                                *)
(*  - A query-string number is a string of digits ("0", "2", "51"); a JSON *)
(*    body number is an integer.                                           *)
(*  - Dates are day numbers; Today is the day GETDATE() returns.           *)
(*  - A WHERE predicate is two-valued here: a comparison with NULL is      *)
(*    FALSE.  The clauses of the modelled queries use no NOT, so a row is  *)
(*    selected under SQL's three-valued logic exactly when it is here.     *)
(***************************************************************************)
EXTENDS Integers, Sequences, FiniteSets, TLC

(***************************************************************************)
(* Bounds of the model.                                                    *)
(***************************************************************************)
\* Number of rows of the Jobs table.
MaxJobs == 2
\* Largest page number a client asks for.
MaxPage == 3
\* Largest number of filter fields present in one request of SpecFilter,
\* and of columns in which a row of SpecFilter differs from BaseRow.
MaxVary == 2
\* Background view-count updates the store accepts in SpecConc.
MaxViews == 1
\* Jobseeker write requests (apply, save) in flight or completed in SpecConc.
MaxCalls == 2

\* The day GETDATE() returns.
Today == 10

JobIds == 1 .. MaxJobs

Null == << >>
IsNull(x) == x = << >>
Some(v) == <<v>>
Val(x) == x[1]

Min2(a, b) == IF a <= b THEN a ELSE b

(***************************************************************************)
(* Fixtures: the Companies table and the accounts optionalAuth resolves.   *)
(***************************************************************************)
Companies ==
  [c \in {1, 2} |->
     IF c = 1 THEN [company_name |-> <<1, 3>>, company_size |-> "1-10"]
              ELSE [company_name |-> <<2>>,    company_size |-> "11-50"]]

\* req.user as optionalAuth sets it (middleware/auth.js:104-110).
CompanyUser == [userType |-> "company",   companyId |-> Some(1), jobseekerId |-> Null]
SeekerUser(s) == [userType |-> "jobseeker", companyId |-> Null,    jobseekerId |-> Some(s)]
Seekers == {1, 2}

(***************************************************************************)
(* JavaScript and SQL primitives.                                          *)
(***************************************************************************)
\* Number(s) / parseInt(s) / parseFloat(s) of a string of digits.
ToNumber(s) ==
  CASE s = "0" -> 0 [] s = "1" -> 1 [] s = "2" -> 2 [] s = "3" -> 3
    [] s = "4" -> 4 [] s = "5" -> 5 [] s = "20" -> 20 [] s = "50" -> 50
    [] s = "51" -> 51

DigitStrings == {"0", "1", "2", "3", "4", "5", "20", "50", "51"}

\* if (x) on an optional string: undefined and "" are falsy, "0" is truthy.
TruthyString(x) == ~IsNull(x) /\ Val(x) # ""
\* if (x) on an optional text (a string after .trim()).
TruthyText(x) == ~IsNull(x) /\ Val(x) # << >>
\* if (x) on an optional number: undefined and 0 are falsy.
TruthyNumber(x) == ~IsNull(x) /\ Val(x) # 0
\* if (x) on an optional boolean.
TruthyBool(x) == ~IsNull(x) /\ Val(x) = TRUE

\* text LIKE '%' + pat + '%' on non-NULL operands: pat occurs in text.
Contains(text, pat) ==
  \E i \in 0 .. Len(text) :
     /\ i + Len(pat) <= Len(text)
     /\ \A k \in 1 .. Len(pat) : text[i + k] = pat[k]

\* column LIKE @p, with @p = `%${pat}%`; a NULL column matches nothing.
Like(col, pat) == ~IsNull(col) /\ Contains(Val(col), pat)

\* a < b for two texts in collation order (lexicographic on the codes).
RECURSIVE TextLess(_, _)
TextLess(a, b) ==
  IF b = << >> THEN FALSE
  ELSE IF a = << >> THEN TRUE
  ELSE IF a[1] # b[1] THEN a[1] < b[1]
  ELSE TextLess(Tail(a), Tail(b))

\* Math.ceil(a / b) for a >= 0, b >= 1.
Ceil(a, b) == (a + b - 1) \div b


(***************************************************************************)
(* The store: Jobs rows, joined with Companies as every search query does. *)
(***************************************************************************)
\* A Jobs row that every filter of the model's requests selects.
BaseRow ==
  [company_id |-> 1, title |-> Some(<<1, 2>>), description |-> Some(<<2, 3>>),
   requirements |-> Null, location |-> Some(<<1>>),
   job_type |-> "Full-time", experience_level |-> "Mid-level",
   remote_work_option |-> "Yes", industry |-> Some(<<1>>),
   salary_min |-> Some(2), salary_max |-> Some(2),
   posted_date |-> Today - 1, application_deadline |-> Null,
   status |-> "active", views_count |-> 0,
   current_applications |-> 0, max_applications |-> Null]

\* FROM Jobs j INNER JOIN Companies c ON j.company_id = c.company_id
Joined(tbl, id) ==
  [job_id |-> id, j |-> tbl[id], c |-> Companies[tbl[id].company_id]]

(***************************************************************************)
(* Validation chains (express-validator) of the three search routes.       *)
(***************************************************************************)
JobTypes == {"Full-time", "Part-time", "Contract", "Internship", "Freelance"}
ExperienceLevels == {"Entry-level", "Mid-level", "Senior-level", "Executive"}
RemoteWorkOptions == {"Yes", "No", "Hybrid"}
SortByList == {"posted_date", "salary_min", "title", "company_name"}
SortBySearch == {"relevance", "posted_date", "salary", "company_name"}

\* query('page').optional().isInt({min: 1}); query('limit').optional().isInt({min: 1, max: 50})
QueryPageErrorsNoMax(q) ==
  (IF ~IsNull(q.page) /\ ToNumber(Val(q.page)) < 1 THEN {"page"} ELSE {})
  \cup (IF ~IsNull(q.limit) /\ ToNumber(Val(q.limit)) < 1 THEN {"limit"} ELSE {})

QueryPageErrors(q) ==
  (IF ~IsNull(q.page) /\ ToNumber(Val(q.page)) < 1 THEN {"page"} ELSE {})
  \cup (IF ~IsNull(q.limit) /\ ~(ToNumber(Val(q.limit)) \in 1 .. 50) THEN {"limit"} ELSE {})

\* validationResult(req) of GET /
ListErrors(q) ==
  QueryPageErrors(q)
  \cup (IF ~IsNull(q.job_type) /\ Val(q.job_type) \notin JobTypes THEN {"job_type"} ELSE {})
  \cup (IF ~IsNull(q.experience_level) /\ Val(q.experience_level) \notin ExperienceLevels
        THEN {"experience_level"} ELSE {})
  \cup (IF ~IsNull(q.remote_work_option) /\ Val(q.remote_work_option) \notin RemoteWorkOptions
        THEN {"remote_work_option"} ELSE {})
  \cup (IF ~IsNull(q.sort_by) /\ Val(q.sort_by) \notin SortByList THEN {"sort_by"} ELSE {})
  \cup (IF ~IsNull(q.sort_order) /\ Val(q.sort_order) \notin {"asc", "desc"} THEN {"sort_order"} ELSE {})

\* validationResult(req) of POST /search
SearchErrors(b) ==
  (IF ~IsNull(b.page) /\ Val(b.page) < 1 THEN {"page"} ELSE {})
  \cup (IF ~IsNull(b.limit) /\ ~(Val(b.limit) \in 1 .. 50) THEN {"limit"} ELSE {})
  \cup (IF ~IsNull(b.sort_by) /\ Val(b.sort_by) \notin SortBySearch THEN {"sort_by"} ELSE {})
  \cup (IF ~IsNull(b.posted_within_days) /\ ~(Val(b.posted_within_days) \in 1 .. 365)
        THEN {"posted_within_days"} ELSE {})

\* validationResult(req) of GET /company/:companyId
CompanyErrors(q) == QueryPageErrors(q)

(***************************************************************************)
(* Destructuring defaults and the window.                                  *)
(***************************************************************************)
\* const { page = 1, limit = 20 } = req.query; the values stay strings.
PageOf(q) == IF IsNull(q.page) THEN 1 ELSE ToNumber(Val(q.page))
LimitOf(q, dflt) == IF IsNull(q.limit) THEN dflt ELSE ToNumber(Val(q.limit))
\* const { page = 1, limit = 20 } = req.body; the values are numbers.
BodyPageOf(b) == IF IsNull(b.page) THEN 1 ELSE Val(b.page)
BodyLimitOf(b) == IF IsNull(b.limit) THEN 20 ELSE Val(b.limit)

\* const offset = (page - 1) * limit
Offset(page, limit) == (page - 1) * limit

(***************************************************************************)
(* Dynamic WHERE clause: the clause list and the parameter bindings.       *)
(***************************************************************************)
When(cond, clause) == IF cond THEN <<clause>> ELSE << >>
Bind(cond, name, v) == IF cond THEN name :> v ELSE << >>

\* whereClause of GET /
ListWhere(q) ==
  <<"status_active">>
  \o When(TruthyText(q.search), "search_like")
  \o When(TruthyText(q.location), "location_like")
  \o When(TruthyString(q.job_type), "job_type_eq")
  \o When(TruthyString(q.experience_level), "experience_level_eq")
  \o When(TruthyString(q.remote_work_option), "remote_work_option_eq")
  \o When(TruthyString(q.salary_min), "salary_min_open")
  \o When(TruthyString(q.salary_max), "salary_max_open")
  \o When(TruthyText(q.industry), "industry_like")
  \o <<"deadline_open">>

\* params of GET /
ListParams(q) ==
  Bind(TruthyText(q.search), "search", Val(q.search))
  @@ Bind(TruthyText(q.location), "location", Val(q.location))
  @@ Bind(TruthyString(q.job_type), "jobType", Val(q.job_type))
  @@ Bind(TruthyString(q.experience_level), "experienceLevel", Val(q.experience_level))
  @@ Bind(TruthyString(q.remote_work_option), "remoteWorkOption", Val(q.remote_work_option))
  @@ Bind(TruthyString(q.salary_min), "salaryMin", ToNumber(Val(q.salary_min)))
  @@ Bind(TruthyString(q.salary_max), "salaryMax", ToNumber(Val(q.salary_max)))
  @@ Bind(TruthyText(q.industry), "industry", Val(q.industry))

\* if (job_types && job_types.length > 0)
NonEmptyArray(x) == ~IsNull(x) /\ Len(Val(x)) > 0
\* if (salary_range) { if (salary_range.min) ... }
RangeMin(b) == ~IsNull(b.salary_range) /\ TruthyNumber(Val(b.salary_range).min)
RangeMax(b) == ~IsNull(b.salary_range) /\ TruthyNumber(Val(b.salary_range).max)

\* whereClause of POST /search
SearchWhere(b) ==
  <<"status_active">>
  \o When(TruthyText(b.keywords), "keywords_like")
  \o When(TruthyText(b.location), "location_like")
  \o When(NonEmptyArray(b.job_types), "job_type_in")
  \o When(NonEmptyArray(b.experience_levels), "experience_level_in")
  \o When(NonEmptyArray(b.industries), "industry_in")
  \o When(RangeMin(b), "salary_min_open")
  \o When(RangeMax(b), "salary_max_open")
  \o When(TruthyBool(b.remote_only), "remote_in")
  \o When(TruthyNumber(b.posted_within_days), "posted_within")
  \o When(NonEmptyArray(b.company_size), "company_size_in")

\* params of POST /search
SearchParams(b) ==
  Bind(TruthyText(b.keywords), "keywords", Val(b.keywords))
  @@ Bind(TruthyText(b.location), "location", Val(b.location))
  @@ Bind(NonEmptyArray(b.job_types), "jobTypes", Val(b.job_types))
  @@ Bind(NonEmptyArray(b.experience_levels), "expLevels", Val(b.experience_levels))
  @@ Bind(NonEmptyArray(b.industries), "industries", Val(b.industries))
  @@ Bind(RangeMin(b), "salaryMin", Val(Val(b.salary_range).min))
  @@ Bind(RangeMax(b), "salaryMax", Val(Val(b.salary_range).max))
  @@ Bind(TruthyNumber(b.posted_within_days), "postedWithinDays", Val(b.posted_within_days))
  @@ Bind(NonEmptyArray(b.company_size), "companySizes", Val(b.company_size))

\* WHERE of GET /company/:companyId
CompanyWhere(q) == <<"company_eq", "status_active">>
CompanyParams(q) == "companyId" :> ToNumber(q.companyId)

\* value IN (@p0, @p1, ...): the placeholders bind the array's elements.
InList(v, arr) == \E i \in 1 .. Len(arr) : arr[i] = v

\* One clause of a WHERE, on a joined row r under the bindings p.
EvalClause(clause, r, p) ==
  CASE clause = "status_active" -> r.j.status = "active"
    [] clause = "search_like" ->
         \/ Like(r.j.title, p["search"])
         \/ Like(r.j.description, p["search"])
         \/ Like(Some(r.c.company_name), p["search"])
    [] clause = "keywords_like" ->
         \/ Like(r.j.title, p["keywords"])
         \/ Like(r.j.description, p["keywords"])
         \/ Like(r.j.requirements, p["keywords"])
         \/ Like(Some(r.c.company_name), p["keywords"])
    [] clause = "location_like" -> Like(r.j.location, p["location"])
    [] clause = "job_type_eq" -> r.j.job_type = p["jobType"]
    [] clause = "experience_level_eq" -> r.j.experience_level = p["experienceLevel"]
    [] clause = "remote_work_option_eq" -> r.j.remote_work_option = p["remoteWorkOption"]
    [] clause = "salary_min_open" ->
         (~IsNull(r.j.salary_min) /\ Val(r.j.salary_min) >= p["salaryMin"])
         \/ IsNull(r.j.salary_min)
    [] clause = "salary_max_open" ->
         (~IsNull(r.j.salary_max) /\ Val(r.j.salary_max) <= p["salaryMax"])
         \/ IsNull(r.j.salary_max)
    [] clause = "industry_like" -> Like(r.j.industry, p["industry"])
    [] clause = "deadline_open" ->
         IsNull(r.j.application_deadline) \/ Val(r.j.application_deadline) >= Today
    [] clause = "job_type_in" -> InList(r.j.job_type, p["jobTypes"])
    [] clause = "experience_level_in" -> InList(r.j.experience_level, p["expLevels"])
    [] clause = "industry_in" ->
         ~IsNull(r.j.industry) /\ InList(Val(r.j.industry), p["industries"])
    [] clause = "remote_in" -> r.j.remote_work_option \in {"Yes", "Hybrid"}
    [] clause = "posted_within" -> r.j.posted_date >= Today - p["postedWithinDays"]
    [] clause = "company_size_in" -> InList(r.c.company_size, p["companySizes"])
    [] clause = "company_eq" -> r.j.company_id = p["companyId"]

\* The clauses of a WHERE are joined by AND.
RowSatisfiesAny(where, r, p) ==
  \E i \in 1 .. Len(where) : EvalClause(where[i], r, p)

RowSatisfies(where, r, p) ==
  \A i \in 1 .. Len(where) : EvalClause(where[i], r, p)

\* The job ids the WHERE selects from the table.
Selected(tbl, where, p) ==
  {id \in DOMAIN tbl : RowSatisfies(where, Joined(tbl, id), p)}


(***************************************************************************)
(* ORDER BY: the sort keys, and the orders a query may return.             *)
(***************************************************************************)
Key(col, dir) == [col |-> col, dir |-> dir]

\* sort_order.toUpperCase(), for the validated values.
ToUpperCase(s) == IF s = "asc" THEN "ASC" ELSE "DESC"

\* orderBy of GET /
ListOrderBy(q) ==
  LET sort_by == IF IsNull(q.sort_by) THEN "posted_date" ELSE Val(q.sort_by)
      sort_order == IF IsNull(q.sort_order) THEN "desc" ELSE Val(q.sort_order)
      col == CASE sort_by = "salary_min" -> "salary_min"
               [] sort_by = "title" -> "title"
               [] sort_by = "company_name" -> "company_name"
               [] OTHER -> "posted_date"
  IN  <<Key(col, ToUpperCase(sort_order))>>

\* orderBy of POST /search
SearchOrderBy(b) ==
  LET sort_by == IF IsNull(b.sort_by) THEN "relevance" ELSE Val(b.sort_by)
  IN  CASE sort_by = "posted_date" -> <<Key("posted_date", "DESC")>>
        [] sort_by = "salary" -> <<Key("salary_max", "DESC"), Key("salary_min", "DESC")>>
        [] sort_by = "company_name" -> <<Key("company_name", "ASC")>>
        [] OTHER ->
             IF TruthyText(b.keywords)
             THEN <<Key("relevance", "ASC"), Key("posted_date", "DESC")>>
             ELSE <<Key("posted_date", "DESC")>>

\* ORDER BY of GET /company/:companyId
CompanyOrderBy(q) == <<Key("posted_date", "DESC")>>

\* CASE WHEN j.title LIKE @keywords THEN 1 WHEN c.company_name LIKE ... END
RelevanceTierDescriptionFirst(r, p) ==
  IF Like(r.j.title, p["keywords"]) THEN 1
  ELSE IF Like(r.j.description, p["keywords"]) THEN 2
  ELSE IF Like(Some(r.c.company_name), p["keywords"]) THEN 3
  ELSE 4

RelevanceTier(r, p) ==
  IF Like(r.j.title, p["keywords"]) THEN 1
  ELSE IF Like(Some(r.c.company_name), p["keywords"]) THEN 2
  ELSE IF Like(r.j.description, p["keywords"]) THEN 3
  ELSE 4

\* NULL sorts lowest (SQL Server); otherwise the numbers compare.
NullableLess(x, y) ==
  IF IsNull(y) THEN FALSE ELSE IF IsNull(x) THEN TRUE ELSE Val(x) < Val(y)

\* (j.views_count * 0.7 + j.current_applications * 0.3), in tenths: the
\* product of an int and a decimal literal is an exact decimal.
TrendScoreViewsOnly(row) == 7 * row.views_count

TrendScore(row) == 7 * row.views_count + 3 * row.current_applications

\* a's value in column col is below b's.
ColLess(col, a, b, p) ==
  CASE col = "posted_date" -> a.j.posted_date < b.j.posted_date
    [] col = "trend_score" -> TrendScore(a.j) < TrendScore(b.j)
    [] col = "salary_min" -> NullableLess(a.j.salary_min, b.j.salary_min)
    [] col = "salary_max" -> NullableLess(a.j.salary_max, b.j.salary_max)
    [] col = "title" -> TextLess(Val(a.j.title), Val(b.j.title))
    [] col = "company_name" -> TextLess(a.c.company_name, b.c.company_name)
    [] col = "relevance" -> RelevanceTier(a, p) < RelevanceTier(b, p)

\* a comes before b under one key.
KeyBefore(k, a, b, p) ==
  IF k.dir = "ASC" THEN ColLess(k.col, a, b, p) ELSE ColLess(k.col, b, a, p)

\* a comes strictly before b under the key list: the first key on which
\* they differ decides.
RowBefore(keys, a, b, p) ==
  \E i \in 1 .. Len(keys) :
     /\ KeyBefore(keys[i], a, b, p)
     /\ \A k \in 1 .. i - 1 :
          ~KeyBefore(keys[k], a, b, p) /\ ~KeyBefore(keys[k], b, a, p)

\* The sequences without repetition over the set ids.
Perms(ids) ==
  {s \in [1 .. Cardinality(ids) -> ids] :
     \A i, k \in 1 .. Cardinality(ids) : i # k => s[i] # s[k]}

\* The orders in which the store may return the selected rows: ORDER BY
\* fixes the order of two rows only when the key list separates them; rows
\* equal on every key come in an order the store is free to choose, anew at
\* every execution.
ValidOrders(tbl, ids, keys, p) ==
  {s \in Perms(ids) :
     \A i, k \in 1 .. Len(s) :
        i < k => ~RowBefore(keys, Joined(tbl, s[k]), Joined(tbl, s[i]), p)}

(***************************************************************************)
(* OFFSET @offset ROWS FETCH NEXT @limit ROWS ONLY, and the select lists.  *)
(***************************************************************************)
WindowUnbounded(order, offset, limit) ==
  SubSeq(order, offset + 1, Len(order))

WindowClamped(order, offset, limit) ==
  IF offset >= Len(order) /\ Len(order) > 0
  THEN SubSeq(order, Len(order), Len(order))
  ELSE SubSeq(order, offset + 1, Min2(offset + limit, Len(order)))

Window(order, offset, limit) ==
  SubSeq(order, offset + 1, Min2(offset + limit, Len(order)))

\* The columns of one row of the recordset; COUNT(*) OVER() is the number
\* of rows the WHERE selects, before the window.
ListColumns(r, n) ==
  [job_id |-> r.job_id, title |-> r.j.title, posted_date |-> r.j.posted_date,
   application_deadline |-> r.j.application_deadline,
   salary_min |-> r.j.salary_min, salary_max |-> r.j.salary_max,
   current_applications |-> r.j.current_applications,
   views_count |-> r.j.views_count, company_name |-> r.c.company_name,
   total_count |-> n]

SearchColumns(r, n) ==
  [job_id |-> r.job_id, title |-> r.j.title, posted_date |-> r.j.posted_date,
   application_deadline |-> r.j.application_deadline,
   salary_min |-> r.j.salary_min, salary_max |-> r.j.salary_max,
   views_count |-> r.j.views_count, company_name |-> r.c.company_name,
   total_count |-> n]

CompanyColumns(r, n) ==
  [job_id |-> r.job_id, title |-> r.j.title, posted_date |-> r.j.posted_date,
   application_deadline |-> r.j.application_deadline,
   salary_min |-> r.j.salary_min, salary_max |-> r.j.salary_max,
   current_applications |-> r.j.current_applications,
   total_count |-> n]

\* (SELECT COUNT(*) FROM Applications WHERE job_id = j.job_id AND
\*  jobseeker_id = @jobseekerId) as has_applied, and the same on SavedJobs.
\* A NULL @jobseekerId equals no row's jobseeker_id: the count is 0.
UserColumns(id, seeker, applications, savedJobs) ==
  [has_applied |-> IF IsNull(seeker) THEN 0 ELSE applications[<<id, Val(seeker)>>],
   is_saved |-> IF IsNull(seeker) THEN 0 ELSE savedJobs[<<id, Val(seeker)>>]]

\* if (req.user && req.user.userType === 'jobseeker')
AnnotatesAnyUser(user) == ~IsNull(user)

Annotates(user) == ~IsNull(user) /\ Val(user).userType = "jobseeker"

\* One row of the recordset, with the user-specific columns when selected.
RecordCountingApplied(cols, id, user, applications, savedJobs) ==
  IF Annotates(user)
  THEN [cols EXCEPT !.total_count =
          UserColumns(id, Val(user).jobseekerId, applications, savedJobs).has_applied]
       @@ UserColumns(id, Val(user).jobseekerId, applications, savedJobs)
  ELSE cols

Record(cols, id, user, applications, savedJobs) ==
  IF Annotates(user)
  THEN cols @@ UserColumns(id, Val(user).jobseekerId, applications, savedJobs)
  ELSE cols

\* The text of the search statement, `${selectClause} FROM ... ${whereClause}
\* ${orderBy} OFFSET @offset ...`: its select lists, its WHERE clauses, the
\* number of placeholders of each IN list, its sort keys, and the request
\* values written into the text itself (none: every value is bound).
ListStatementInlining(q) ==
  [select |-> IF Annotates(q.user) THEN <<"jobs", "user">> ELSE <<"jobs">>,
   where |-> ListWhere(q),
   placeholders |-> << >>,
   orderBy |-> ListOrderBy(q),
   literals |-> IF TruthyText(q.search) THEN <<Val(q.search)>> ELSE << >>]

ListStatement(q) ==
  [select |-> IF Annotates(q.user) THEN <<"jobs", "user">> ELSE <<"jobs">>,
   where |-> ListWhere(q),
   placeholders |-> << >>,
   orderBy |-> ListOrderBy(q),
   literals |-> << >>]

\* job_types.map((_, index) => `@jobType${index}`): one per element.
Placeholders(x) == IF NonEmptyArray(x) THEN Len(Val(x)) ELSE 0

SearchStatement(b) ==
  [select |-> IF Annotates(b.user) THEN <<"jobs", "user">> ELSE <<"jobs">>,
   where |-> SearchWhere(b),
   placeholders |-> <<Placeholders(b.job_types), Placeholders(b.experience_levels),
                      Placeholders(b.industries), Placeholders(b.company_size)>>,
   orderBy |-> SearchOrderBy(b),
   literals |-> << >>]

\* const totalCount = recordset.length > 0 ? recordset[0].total_count : 0
TotalCount(recordset) ==
  IF Len(recordset) > 0 THEN recordset[1].total_count ELSE 0

\* The body of a successful paginated response.
Page(recordset, page, limit) ==
  [status |-> 200, jobs |-> recordset,
   pagination |-> [page |-> page, limit |-> limit,
                   total |-> TotalCount(recordset),
                   totalPages |-> Ceil(TotalCount(recordset), limit)]]

ValidationFailed(errs) == [status |-> 400, message |-> "Validation failed", errors |-> errs]

\* res.status(500).json({ success: false, message })
ServerErrorLeaking(msg) == [status |-> 500, message |-> msg, error |-> "query"]

ServerError(msg) == [status |-> 500, message |-> msg]
NotFound(msg) == [status |-> 404, message |-> msg]


(***************************************************************************)
(* State.                                                                  *)
(***************************************************************************)
VARIABLES
  jobs,          \* the Jobs table: job id -> row
  applications,  \* the Applications table: <<job id, jobseeker id>> -> number of rows
  savedJobs,     \* the SavedJobs table: <<job id, jobseeker id>> -> number of rows
  req,           \* the client's search (req.query / req.body, req.user), with the
                 \* page it asked for last
  resp,          \* the response to the request sent last
  viewTasks,     \* view-count updates dispatched and not settled: id set -> count
  viewBudget,    \* view-count updates the store still admits; past it, it rejects them
  calls,         \* the jobseeker write requests: call -> its position and locals
  acc,           \* job ids of the pages 1 .. pagesDone a client fetched in sequence
  pagesDone,     \* pages of that sequence fetched so far
  dirty,         \* a jobseeker write reached the store since the last search response
  queries,       \* the statements the handler of the request answered last awaited,
                 \* in order, each with its outcome
  auth,          \* the run of an authentication middleware on the request sent last
  skills,        \* the JobSeekerSkills rows of the jobseeker, and the run of its
                 \* POST /skills request
  db             \* config/database.js: poolPromise, the connection promises
                 \* created, and the callers of connectDB, getDB and executeQuery

vars == <<jobs, applications, savedJobs, req, resp, viewTasks, viewBudget,
          calls, acc, pagesDone, dirty, queries, auth, skills, db>>

NoResponse == [status |-> 0]

\* An awaited executeQuery: the statement, and whether its promise resolved.
Ran(stmt) == [stmt |-> stmt, ok |-> TRUE]
Failed(stmt) == [stmt |-> stmt, ok |-> FALSE]

\* The middleware run of a request: the middleware or handler the request
\* has reached ("" before the first, "ended" once a middleware has answered),
\* the middlewares that called next(), in order, the responses sent, and
\* the outcome of the user lookup ("none" when it was not issued).
AuthRun(pc, passed, sent, lookup) ==
  [pc |-> pc, passed |-> passed, sent |-> sent, lookup |-> lookup]

\* No authentication middleware has run.
NoAuth == AuthRun("", << >>, << >>, "none")

\* A request of each route with every optional field absent.
EmptyList ==
  [route |-> "list", page |-> Null, limit |-> Null, search |-> Null,
   location |-> Null, job_type |-> Null, experience_level |-> Null,
   remote_work_option |-> Null, salary_min |-> Null, salary_max |-> Null,
   industry |-> Null, sort_by |-> Null, sort_order |-> Null, user |-> Null]

EmptySearch ==
  [route |-> "search", page |-> Null, limit |-> Null, keywords |-> Null,
   location |-> Null, job_types |-> Null, experience_levels |-> Null,
   industries |-> Null, salary_range |-> Null, remote_only |-> Null,
   posted_within_days |-> Null, company_size |-> Null, sort_by |-> Null,
   user |-> Null]

EmptyTrending == [route |-> "trending", limit |-> Null]

EmptyDetail(jobId) == [route |-> "detail", jobId |-> jobId, user |-> Null]

EmptyCompany(companyId) ==
  [route |-> "company", companyId |-> companyId, page |-> Null, limit |-> Null,
   user |-> Null]

\* The page number and the page size a valid request asks for.
ReqPage(q) == IF q.route = "search" THEN BodyPageOf(q) ELSE PageOf(q)
ReqLimit(q) ==
  CASE q.route = "search" -> BodyLimitOf(q)
    [] q.route = "company" -> LimitOf(q, 10)
    [] OTHER -> LimitOf(q, 20)

JobIdsOf(recordset) == [i \in 1 .. Len(recordset) |-> recordset[i].job_id]
IdSet(recordset) == {recordset[i].job_id : i \in 1 .. Len(recordset)}

(***************************************************************************)
(* The client's view of a sequence of fetches (history).                   *)
(***************************************************************************)
\* After the response r to q: the pages fetched in sequence from page 1.
Fetched(q, r) ==
  /\ dirty' = FALSE
  /\ IF r.status = 200 /\ ReqPage(q) = 1
     THEN acc' = JobIdsOf(r.jobs) /\ pagesDone' = 1
     ELSE IF r.status = 200 /\ pagesDone >= 1 /\ ReqPage(q) = pagesDone + 1
     THEN acc' = acc \o JobIdsOf(r.jobs) /\ pagesDone' = pagesDone + 1
     ELSE acc' = << >> /\ pagesDone' = 0

\* After a write of a jobseeker: the sequence is broken.
Written == dirty' = TRUE /\ acc' = << >> /\ pagesDone' = 0

(***************************************************************************)
(* executeQuery of the three paginated queries: the recordset when the     *)
(* store returns the selected rows in the order `order`.                   *)
(***************************************************************************)
ListRecordset(q, order) ==
  LET limit == LimitOf(q, 20)
      w == Window(order, Offset(PageOf(q), limit), limit)
  IN  [i \in 1 .. Len(w) |->
         Record(ListColumns(Joined(jobs, w[i]), Len(order)), w[i], q.user,
                applications, savedJobs)]

SearchRecordset(b, order) ==
  LET limit == BodyLimitOf(b)
      w == Window(order, Offset(BodyPageOf(b), limit), limit)
  IN  [i \in 1 .. Len(w) |->
         Record(SearchColumns(Joined(jobs, w[i]), Len(order)), w[i], b.user,
                applications, savedJobs)]

CompanyRecordset(q, order) ==
  LET limit == LimitOf(q, 10)
      w == Window(order, Offset(PageOf(q), limit), limit)
  IN  [i \in 1 .. Len(w) |->
         Record(CompanyColumns(Joined(jobs, w[i]), Len(order)), w[i], q.user,
                applications, savedJobs)]

(***************************************************************************)
(* Route handlers of routes/jobs.js.                                       *)
(***************************************************************************)
\* executeQuery(updateViewsQuery).catch(...): the update is dispatched and
\* not awaited; a store that admits no more updates rejects it, which is
\* logged and changes nothing.
DispatchViews(ids) ==
  IF viewBudget > 0
  THEN /\ viewTasks' = [viewTasks EXCEPT ![ids] = @ + 1]
       /\ viewBudget' = viewBudget - 1
  ELSE UNCHANGED <<viewTasks, viewBudget>>

\* router.get('/')
GetJobs(q) ==
  /\ req.route = "list"
  /\ req' = q
  /\ UNCHANGED <<jobs, applications, savedJobs, calls, auth, skills, db>>
  /\ IF ListErrors(q) # {}
     THEN /\ resp' = ValidationFailed(ListErrors(q))
          /\ queries' = << >>
          /\ Fetched(q, resp')
          /\ UNCHANGED <<viewTasks, viewBudget>>
     ELSE \/ /\ resp' = ServerError("Failed to get jobs")
             /\ queries' = <<Failed("jobs")>>
             /\ Fetched(q, resp')
             /\ UNCHANGED <<viewTasks, viewBudget>>
          \/ \E order \in ValidOrders(jobs, Selected(jobs, ListWhere(q), ListParams(q)),
                                      ListOrderBy(q), ListParams(q)) :
               LET recordset == ListRecordset(q, order)
               IN  /\ resp' = Page(recordset, PageOf(q), LimitOf(q, 20))
                   /\ queries' = <<Ran("jobs")>>
                   /\ Fetched(q, resp')
                   /\ IF Len(recordset) > 0
                      THEN DispatchViews(IdSet(recordset))
                      ELSE UNCHANGED <<viewTasks, viewBudget>>

\* router.post('/search')
SearchJobs(b) ==
  /\ req.route = "search"
  /\ req' = b
  /\ UNCHANGED <<jobs, applications, savedJobs, calls, viewTasks, viewBudget, auth, skills, db>>
  /\ IF SearchErrors(b) # {}
     THEN /\ resp' = ValidationFailed(SearchErrors(b))
          /\ queries' = << >>
          /\ Fetched(b, resp')
     ELSE \/ /\ resp' = ServerError("Failed to search jobs")
             /\ queries' = <<Failed("jobs")>>
             /\ Fetched(b, resp')
          \/ \E order \in ValidOrders(jobs, Selected(jobs, SearchWhere(b), SearchParams(b)),
                                      SearchOrderBy(b), SearchParams(b)) :
               /\ resp' = Page(SearchRecordset(b, order), BodyPageOf(b), BodyLimitOf(b))
               /\ queries' = <<Ran("jobs")>>
               /\ Fetched(b, resp')

\* router.get('/company/:companyId')
GetCompanyJobs(q) ==
  /\ req.route = "company"
  /\ req' = q
  /\ UNCHANGED <<jobs, applications, savedJobs, calls, viewTasks, viewBudget, auth, skills, db>>
  /\ IF CompanyErrors(q) # {}
     THEN /\ resp' = ValidationFailed(CompanyErrors(q))
          /\ queries' = << >>
          /\ Fetched(q, resp')
     ELSE \/ /\ resp' = ServerError("Failed to get company jobs")
             /\ queries' = <<Failed("company")>>
             /\ Fetched(q, resp')
          \/ /\ ToNumber(q.companyId) \in DOMAIN Companies
             /\ resp' = ServerError("Failed to get company jobs")
             /\ queries' = <<Ran("company"), Failed("jobs")>>
             /\ Fetched(q, resp')
          \/ /\ ToNumber(q.companyId) \notin DOMAIN Companies
             /\ resp' = NotFound("Company not found")
             /\ queries' = <<Ran("company")>>
             /\ Fetched(q, resp')
          \/ /\ ToNumber(q.companyId) \in DOMAIN Companies
             /\ \E order \in ValidOrders(jobs, Selected(jobs, CompanyWhere(q), CompanyParams(q)),
                                         CompanyOrderBy(q), CompanyParams(q)) :
                  /\ resp' = Page(CompanyRecordset(q, order), PageOf(q), LimitOf(q, 10))
                  /\ queries' = <<Ran("company"), Ran("jobs")>>
                  /\ Fetched(q, resp')

\* After the response of a route that has no pages.
NotPaged == dirty' = FALSE /\ acc' = << >> /\ pagesDone' = 0

\* param('jobId').isInt() of GET /:jobId
DetailErrors(q) == IF q.jobId \in DigitStrings THEN {} ELSE {"jobId"}

\* SELECT j.*, c.company_name, ... of GET /:jobId
DetailColumns(r) ==
  [job_id |-> r.job_id, company_id |-> r.j.company_id, title |-> r.j.title,
   description |-> r.j.description, location |-> r.j.location,
   job_type |-> r.j.job_type, experience_level |-> r.j.experience_level,
   industry |-> r.j.industry, salary_min |-> r.j.salary_min,
   salary_max |-> r.j.salary_max, posted_date |-> r.j.posted_date,
   application_deadline |-> r.j.application_deadline, status |-> r.j.status,
   views_count |-> r.j.views_count,
   current_applications |-> r.j.current_applications,
   company_name |-> r.c.company_name, company_size |-> r.c.company_size]

\* WHERE of similarJobsQuery; a NULL industry equals nothing.
SimilarIds(tbl, id) ==
  {o \in DOMAIN tbl :
     /\ o # id
     /\ tbl[o].status = "active"
     /\ \/ ~IsNull(tbl[id].industry) /\ tbl[o].industry = tbl[id].industry
        \/ tbl[o].job_type = tbl[id].job_type
        \/ tbl[o].experience_level = tbl[id].experience_level}

SimilarColumns(r) ==
  [job_id |-> r.job_id, title |-> r.j.title, location |-> r.j.location,
   job_type |-> r.j.job_type, salary_min |-> r.j.salary_min,
   salary_max |-> r.j.salary_max, company_name |-> r.c.company_name]

\* SELECT TOP 5 ... ORDER BY j.posted_date DESC, from the order the store returns.
SimilarRecordset(order) ==
  LET w == Window(order, 0, 5)
  IN  [i \in 1 .. Len(w) |-> SimilarColumns(Joined(jobs, w[i]))]

\* The body of the response of GET /:jobId; the JobSkills table is empty.
Detail(job, similar) ==
  [status |-> 200, data |-> job @@ [skills |-> << >>, similar_jobs |-> similar]]

\* router.get('/:jobId').  The second and third awaited statements read no
\* column that a view-count update or a jobseeker write changes, so the three
\* are taken in one step, at the instant of the first.
GetJob(q) ==
  /\ req.route = "detail"
  /\ req' = q
  /\ UNCHANGED <<jobs, applications, savedJobs, calls, auth, skills, db>>
  /\ NotPaged
  /\ IF DetailErrors(q) # {}
     THEN /\ resp' = ValidationFailed(DetailErrors(q))
          /\ queries' = << >>
          /\ UNCHANGED <<viewTasks, viewBudget>>
     ELSE LET id == ToNumber(q.jobId)
              found == id \in DOMAIN jobs /\ jobs[id].status = "active"
          IN  \/ /\ resp' = ServerError("Failed to get job details")
                 /\ queries' = <<Failed("job")>>
                 /\ UNCHANGED <<viewTasks, viewBudget>>
              \/ /\ ~found
                 /\ resp' = NotFound("Job not found")
                 /\ queries' = <<Ran("job")>>
                 /\ UNCHANGED <<viewTasks, viewBudget>>
              \/ /\ found
                 /\ resp' = ServerError("Failed to get job details")
                 /\ queries' \in {<<Ran("job"), Failed("skills")>>,
                                  <<Ran("job"), Ran("skills"), Failed("similar")>>}
                 /\ UNCHANGED <<viewTasks, viewBudget>>
              \/ /\ found
                 /\ \E order \in ValidOrders(jobs, SimilarIds(jobs, id),
                                             <<Key("posted_date", "DESC")>>, << >>) :
                      resp' = Detail(Record(DetailColumns(Joined(jobs, id)), id, q.user,
                                            applications, savedJobs),
                                     SimilarRecordset(order))
                 /\ queries' = <<Ran("job"), Ran("skills"), Ran("similar")>>
                 /\ DispatchViews({id})

\* const { limit = 10 } = req.query; parseInt(limit): NaN (no value here)
\* when the string does not start with a digit.
TrendLimit(q) ==
  IF IsNull(q.limit) THEN Some(10)
  ELSE IF Val(q.limit) \in DigitStrings THEN Some(ToNumber(Val(q.limit)))
  ELSE Null

\* WHERE j.status = 'active' AND j.posted_date >= DATEADD(day, -30, GETDATE())
TrendEligibleAnyAge(row) == row.status = "active"

TrendEligible(row) == row.status = "active" /\ row.posted_date >= Today - 30

TrendOrderBy == <<Key("trend_score", "DESC"), Key("posted_date", "DESC")>>

TrendColumns(r) ==
  [job_id |-> r.job_id, title |-> r.j.title, location |-> r.j.location,
   job_type |-> r.j.job_type, salary_min |-> r.j.salary_min,
   salary_max |-> r.j.salary_max, posted_date |-> r.j.posted_date,
   views_count |-> r.j.views_count,
   current_applications |-> r.j.current_applications,
   company_name |-> r.c.company_name]

\* SELECT TOP (@limit) ..., from the order the store returns.
TrendRecordset(order, limit) ==
  LET w == Window(order, 0, limit)
  IN  [i \in 1 .. Len(w) |-> TrendColumns(Joined(jobs, w[i]))]

\* router.get('/trending/popular'): no validation chain; a limit that is not
\* a number makes the statement fail.
GetTrending(q) ==
  /\ req.route = "trending"
  /\ req' = q
  /\ UNCHANGED <<jobs, applications, savedJobs, calls, auth, viewTasks, viewBudget, skills, db>>
  /\ NotPaged
  /\ \/ /\ resp' = ServerError("Failed to get trending jobs")
        /\ queries' = <<Failed("trending")>>
     \/ /\ ~IsNull(TrendLimit(q))
        /\ \E order \in ValidOrders(jobs, {id \in DOMAIN jobs : TrendEligible(jobs[id])},
                                    TrendOrderBy, << >>) :
             resp' = [status |-> 200, data |-> TrendRecordset(order, Val(TrendLimit(q)))]
        /\ queries' = <<Ran("trending")>>

\* The dispatched UPDATE Jobs SET views_count = views_count + 1 WHERE job_id
\* IN (...) reaches the store: one statement, applied atomically.
ViewUpdateAllRows(ids) ==
  /\ viewTasks[ids] > 0
  /\ viewTasks' = [viewTasks EXCEPT ![ids] = @ - 1]
  /\ jobs' = [id \in DOMAIN jobs |-> [jobs[id] EXCEPT !.views_count = @ + 1]]
  /\ UNCHANGED <<applications, savedJobs, req, resp, viewBudget, calls, queries, auth, acc, pagesDone, dirty, skills, db>>

ViewUpdate(ids) ==
  /\ viewTasks[ids] > 0
  /\ viewTasks' = [viewTasks EXCEPT ![ids] = @ - 1]
  /\ jobs' = [id \in DOMAIN jobs |->
                IF id \in ids THEN [jobs[id] EXCEPT !.views_count = @ + 1] ELSE jobs[id]]
  /\ UNCHANGED <<applications, savedJobs, req, resp, viewBudget, calls, queries, auth, acc, pagesDone, dirty, skills, db>>

\* The dispatched update fails: .catch logs it.
ViewFailSurfaces(ids) ==
  /\ viewTasks[ids] > 0
  /\ viewTasks' = [viewTasks EXCEPT ![ids] = @ - 1]
  /\ resp' = ServerError("Failed to update view counts")
  /\ UNCHANGED <<jobs, applications, savedJobs, req, viewBudget, calls, queries, auth,
                 acc, pagesDone, dirty, skills, db>>

ViewFail(ids) ==
  /\ viewTasks[ids] > 0
  /\ viewTasks' = [viewTasks EXCEPT ![ids] = @ - 1]
  /\ UNCHANGED <<jobs, applications, savedJobs, req, resp, viewBudget, calls, queries, auth, acc, pagesDone, dirty, skills, db>>


(***************************************************************************)
(* middleware/auth.js.  A token is what jwt.verify makes of it: its kind   *)
(* and, when it verifies, the userId of its payload.  The Authorization    *)
(* header is the sequence of its parts between spaces.                     *)
(***************************************************************************)
\* The Users table joined with Companies and JobSeekers (dbHelpers.getUserById).
UserRows ==
  [u \in 1 .. 5 |->
     CASE u = 1 -> [user_type |-> "jobseeker", is_verified |-> TRUE,
                    company_id |-> Null, jobseeker_id |-> Some(1)]
       [] u = 2 -> [user_type |-> "jobseeker", is_verified |-> FALSE,
                    company_id |-> Null, jobseeker_id |-> Some(2)]
       [] u = 3 -> [user_type |-> "company", is_verified |-> TRUE,
                    company_id |-> Some(1), jobseeker_id |-> Null]
       [] u = 4 -> [user_type |-> "company", is_verified |-> FALSE,
                    company_id |-> Some(2), jobseeker_id |-> Null]
       [] u = 5 -> [user_type |-> "admin", is_verified |-> TRUE,
                    company_id |-> Null, jobseeker_id |-> Null]]

Token(kind, userId) == [kind |-> kind, userId |-> userId]

\* authHeader && authHeader.split(' ')[1]
TokenOf(authorization) ==
  IF ~IsNull(authorization) /\ Len(Val(authorization)) >= 2
  THEN Some(Val(authorization)[2]) ELSE Null

\* if (token): undefined and the empty string are falsy.
TruthyToken(token) == ~IsNull(token) /\ Val(token).kind # "empty"

\* jwt.verify(token, secret): the name of the error it throws, "" when it
\* returns the payload.
VerifyIgnoringExpiry(token) ==
  CASE token.kind \in {"valid", "expired"} -> ""
    [] token.kind = "notbefore" -> "NotBeforeError"
    [] OTHER -> "JsonWebTokenError"

Verify(token) ==
  CASE token.kind = "valid" -> ""
    [] token.kind = "expired" -> "TokenExpiredError"
    [] token.kind = "notbefore" -> "NotBeforeError"
    [] OTHER -> "JsonWebTokenError"

\* result.recordset[0] of getUserById: undefined when no row has the id.
GetUserById(userId) == IF userId \in DOMAIN UserRows THEN Some(UserRows[userId]) ELSE Null

\* user && user.is_verified
AdmitsUnverified(user) == ~IsNull(user)

Admits(user) == ~IsNull(user) /\ Val(user).is_verified

\* req.user = { userId, email, userType, companyId, jobseekerId }
ReqUser(row) ==
  [userType |-> row.user_type, companyId |-> row.company_id,
   jobseekerId |-> row.jobseeker_id]

\* res.status(status).json({ success: false, message })
Rejected(status, message) == [status |-> status, message |-> message]

\* The middleware chain of the route a request is sent to.
Chain(route) ==
  CASE route = "jobs" -> <<"optionalAuth", "handler">>
    [] route = "jobseekers" -> <<"authenticateToken", "requireJobSeeker", "handler">>
    [] route = "companies" -> <<"authenticateToken", "requireCompany", "handler">>

\* The element of the chain after mw.
After(route, mw) ==
  Chain(route)[1 + CHOOSE i \in 1 .. Len(Chain(route)) : Chain(route)[i] = mw]

\* The request has reached mw.
Reached(mw) ==
  /\ req.route \in {"jobs", "jobseekers", "companies"}
  /\ IF auth.pc = "" THEN Chain(req.route)[1] = mw ELSE auth.pc = mw

\* mw calls next().
CallsNext(mw, lookup) ==
  auth' = AuthRun(After(req.route, mw), Append(auth.passed, mw), auth.sent, lookup)

\* mw answers the request.
Sends(r, lookup) ==
  auth' = AuthRun("ended", auth.passed, Append(auth.sent, r), lookup)

\* optionalAuth
OptionalAuth ==
  /\ Reached("optionalAuth")
  /\ UNCHANGED <<jobs, applications, savedJobs, resp, viewTasks, viewBudget, calls,
                 acc, pagesDone, dirty, queries, skills, db>>
  /\ LET token == TokenOf(req.authorization)
     IN  IF ~TruthyToken(token)
         THEN CallsNext("optionalAuth", "none") /\ UNCHANGED req
         ELSE IF Verify(Val(token)) # ""
         THEN CallsNext("optionalAuth", "none") /\ UNCHANGED req
         ELSE \/ CallsNext("optionalAuth", "failed") /\ UNCHANGED req
              \/ /\ CallsNext("optionalAuth", "ok")
                 /\ LET user == GetUserById(Val(token).userId)
                    IN  IF Admits(user)
                        THEN req' = [req EXCEPT !.user = Some(ReqUser(Val(user)))]
                        ELSE UNCHANGED req

\* authenticateToken
AuthenticateToken ==
  /\ Reached("authenticateToken")
  /\ UNCHANGED <<jobs, applications, savedJobs, resp, viewTasks, viewBudget, calls,
                 acc, pagesDone, dirty, queries, skills, db>>
  /\ LET token == TokenOf(req.authorization)
     IN  IF ~TruthyToken(token)
         THEN Sends(Rejected(401, "Access token required"), "none") /\ UNCHANGED req
         ELSE IF Verify(Val(token)) = "JsonWebTokenError"
         THEN Sends(Rejected(401, "Invalid token"), "none") /\ UNCHANGED req
         ELSE IF Verify(Val(token)) = "TokenExpiredError"
         THEN Sends(Rejected(401, "Token expired"), "none") /\ UNCHANGED req
         ELSE IF Verify(Val(token)) # ""
         THEN Sends(Rejected(500, "Authentication failed"), "none") /\ UNCHANGED req
         ELSE \/ Sends(Rejected(500, "Authentication failed"), "failed") /\ UNCHANGED req
              \/ LET user == GetUserById(Val(token).userId)
                 IN  IF IsNull(user)
                     THEN Sends(Rejected(401, "User not found"), "ok") /\ UNCHANGED req
                     ELSE IF ~Admits(user)
                     THEN /\ Sends(Rejected(401, "Please verify your email address"), "ok")
                          /\ UNCHANGED req
                     ELSE /\ CallsNext("authenticateToken", "ok")
                          /\ req' = [req EXCEPT !.user = Some(ReqUser(Val(user)))]

\* requireJobSeeker
RequireJobSeeker ==
  /\ Reached("requireJobSeeker")
  /\ UNCHANGED <<jobs, applications, savedJobs, req, resp, viewTasks, viewBudget, calls,
                 acc, pagesDone, dirty, queries, skills, db>>
  /\ IF Val(req.user).userType # "jobseeker"
     THEN Sends(Rejected(403, "Job seeker account required"), auth.lookup)
     ELSE CallsNext("requireJobSeeker", auth.lookup)

\* requireCompany
RequireCompany ==
  /\ Reached("requireCompany")
  /\ UNCHANGED <<jobs, applications, savedJobs, req, resp, viewTasks, viewBudget, calls,
                 acc, pagesDone, dirty, queries, skills, db>>
  /\ IF Val(req.user).userType # "company"
     THEN Sends(Rejected(403, "Company account required"), auth.lookup)
     ELSE CallsNext("requireCompany", auth.lookup)


(***************************************************************************)
(* Route handlers of routes/jobseekers.js that write what the annotations  *)
(* read.  The callers have passed authenticateToken and requireJobSeeker.  *)
(* A handler runs from one await to the next in one step: each action is   *)
(* one statement reaching the store and the code that follows its result.  *)
(* Any statement may be rejected by the store, which the handler answers   *)
(* with 500.  Calls arrive in the order of their numbers.                  *)
(***************************************************************************)
\* A jobseeker write request: the handler's position (idle: not arrived;
\* existingQuery, insert, delete: the statement it awaits; done: answered),
\* its route, caller and :jobId, and its response.
Call(pc, kind, seeker, jobId, res) ==
  [pc |-> pc, kind |-> kind, seeker |-> seeker, jobId |-> jobId, res |-> res]
Answer(kind, seeker, jobId, status, message) ==
  Call("done", kind, seeker, jobId, Some([status |-> status, message |-> message]))

\* param('jobId').isInt()
JobIdErrors(jobId) == IF jobId \in DigitStrings THEN {} ELSE {"jobId"}

\* job.application_deadline && new Date(job.application_deadline) < new Date():
\* the deadline is the first instant of its day, so on the day itself it is
\* below the current instant unless that is the first instant too.
DeadlinePassed(row, afterMidnight) ==
  /\ ~IsNull(row.application_deadline)
  /\ \/ Val(row.application_deadline) < Today
     \/ Val(row.application_deadline) = Today /\ afterMidnight

\* job.max_applications && job.current_applications >= job.max_applications
MaxReached(row) ==
  /\ TruthyNumber(row.max_applications)
  /\ row.current_applications >= Val(row.max_applications)

Arrives(c) == calls[c].pc = "idle" /\ (c > 1 => calls[c - 1].pc # "idle")
Awaits(c, kind, pc) == calls[c].kind = kind /\ calls[c].pc = pc
Target(c) == <<ToNumber(calls[c].jobId), calls[c].seeker>>
Finish(c, status, message) ==
  calls' = [calls EXCEPT
              ![c] = Answer(calls[c].kind, calls[c].seeker, calls[c].jobId, status, message)]

\* router.post('/apply/:jobId'): validation, jobQuery and the checks on its row.
ApplyJob(c, s, jobId) ==
  /\ Arrives(c)
  /\ UNCHANGED <<jobs, applications, savedJobs, req, resp, viewTasks, viewBudget, queries, auth,
                 acc, pagesDone, dirty, skills, db>>
  /\ IF JobIdErrors(jobId) # {}
     THEN calls' = [calls EXCEPT ![c] = Answer("apply", s, jobId, 400, "Validation failed")]
     ELSE \/ calls' = [calls EXCEPT
                         ![c] = Answer("apply", s, jobId, 500, "Failed to submit application")]
          \/ \E afterMidnight \in BOOLEAN :
               LET id == ToNumber(jobId)
               IN  calls' = [calls EXCEPT ![c] =
                     IF id \notin DOMAIN jobs \/ jobs[id].status # "active"
                     THEN Answer("apply", s, jobId, 404, "Job not found or not active")
                     ELSE IF DeadlinePassed(jobs[id], afterMidnight)
                     THEN Answer("apply", s, jobId, 400, "Application deadline has passed")
                     ELSE IF MaxReached(jobs[id])
                     THEN Answer("apply", s, jobId, 400,
                                 "Maximum number of applications reached for this job")
                     ELSE Call("existingQuery", "apply", s, jobId, Null)]

\* existingQuery of /apply/:jobId and the check on its result.
ApplyExisting(c) ==
  /\ Awaits(c, "apply", "existingQuery")
  /\ UNCHANGED <<jobs, applications, savedJobs, req, resp, viewTasks, viewBudget, queries, auth,
                 acc, pagesDone, dirty, skills, db>>
  /\ \/ Finish(c, 500, "Failed to submit application")
     \/ IF applications[Target(c)] > 0
        THEN Finish(c, 409, "You have already applied for this job")
        ELSE calls' = [calls EXCEPT ![c].pc = "insert"]

\* INSERT INTO Applications and the 201 response.
ApplyInsert(c) ==
  /\ Awaits(c, "apply", "insert")
  /\ UNCHANGED <<jobs, savedJobs, req, resp, viewTasks, viewBudget, queries, auth, skills, db>>
  /\ \/ /\ Finish(c, 500, "Failed to submit application")
        /\ UNCHANGED <<applications, acc, pagesDone, dirty>>
     \/ /\ applications' = [applications EXCEPT ![Target(c)] = @ + 1]
        /\ Finish(c, 201, "Application submitted successfully")
        /\ Written

\* router.post('/save-job/:jobId'): validation and jobQuery.
SaveJob(c, s, jobId) ==
  /\ Arrives(c)
  /\ UNCHANGED <<jobs, applications, savedJobs, req, resp, viewTasks, viewBudget, queries, auth,
                 acc, pagesDone, dirty, skills, db>>
  /\ IF JobIdErrors(jobId) # {}
     THEN calls' = [calls EXCEPT ![c] = Answer("save", s, jobId, 400, "Validation failed")]
     ELSE \/ calls' = [calls EXCEPT
                         ![c] = Answer("save", s, jobId, 500, "Failed to save/unsave job")]
          \/ calls' = [calls EXCEPT ![c] =
               IF ToNumber(jobId) \notin DOMAIN jobs
               THEN Answer("save", s, jobId, 404, "Job not found")
               ELSE Call("existingQuery", "save", s, jobId, Null)]

\* existingQuery of /save-job/:jobId and the branch on its result.
SaveExisting(c) ==
  /\ Awaits(c, "save", "existingQuery")
  /\ UNCHANGED <<jobs, applications, savedJobs, req, resp, viewTasks, viewBudget, queries, auth,
                 acc, pagesDone, dirty, skills, db>>
  /\ \/ Finish(c, 500, "Failed to save/unsave job")
     \/ calls' = [calls EXCEPT
                    ![c].pc = IF savedJobs[Target(c)] > 0 THEN "delete" ELSE "insert"]

\* DELETE FROM SavedJobs and the response saved: false.
SaveDelete(c) ==
  /\ Awaits(c, "save", "delete")
  /\ UNCHANGED <<jobs, applications, req, resp, viewTasks, viewBudget, queries, auth, skills, db>>
  /\ \/ /\ Finish(c, 500, "Failed to save/unsave job")
        /\ UNCHANGED <<savedJobs, acc, pagesDone, dirty>>
     \/ /\ savedJobs' = [savedJobs EXCEPT ![Target(c)] = 0]
        /\ Finish(c, 200, "Job removed from saved jobs")
        /\ Written

\* INSERT INTO SavedJobs and the response saved: true.
SaveInsert(c) ==
  /\ Awaits(c, "save", "insert")
  /\ UNCHANGED <<jobs, applications, req, resp, viewTasks, viewBudget, queries, auth, skills, db>>
  /\ \/ /\ Finish(c, 500, "Failed to save/unsave job")
        /\ UNCHANGED <<savedJobs, acc, pagesDone, dirty>>
     \/ /\ savedJobs' = [savedJobs EXCEPT ![Target(c)] = @ + 1]
        /\ Finish(c, 200, "Job saved successfully")
        /\ Written


(***************************************************************************)
(* router.post('/skills') of routes/jobseekers.js: the JobSeekerSkills     *)
(* rows of the jobseeker who sends the request, and the request's run.     *)
(***************************************************************************)
Skill(id, level) == [skill_id |-> id, proficiency_level |-> level]

ProficiencyLevels == {"Beginner", "Intermediate", "Advanced", "Expert"}

\* validationResult(req) of POST /skills; body.skills is absent or an array.
SkillsErrors(body) ==
  IF IsNull(body) THEN {"skills"}
  ELSE {"skills.*.proficiency_level" :
          i \in {k \in 1 .. Len(Val(body)) :
                   Val(body)[k].proficiency_level \notin ProficiencyLevels}}

\* The run of the request: the rows stored now and before the request, the
\* body, the statement awaited next, the skill the loop is at and the response.
SkillsRun(stored, before, body, pc, i, res) ==
  [stored |-> stored, before |-> before, body |-> body, pc |-> pc, i |-> i, res |-> res]

NoSkillsRun == SkillsRun({}, {}, Null, "idle", 0, NoResponse)

SkillsAnswer(stored, status, message) ==
  SkillsRun(stored, skills.before, skills.body, "done", skills.i,
            [status |-> status, message |-> message])

\* After the statement that left `stored`: the next INSERT of the loop, or
\* the response when the loop is over.
SkillsNext(stored, i) ==
  IF i <= Len(Val(skills.body))
  THEN SkillsRun(stored, skills.before, skills.body, "insert", i, NoResponse)
  ELSE SkillsAnswer(stored, 200, "Skills updated successfully")

\* The handler up to its first awaited statement.
PostSkills ==
  /\ skills.pc = "idle"
  /\ UNCHANGED <<jobs, applications, savedJobs, req, resp, viewTasks, viewBudget, calls,
                 acc, pagesDone, dirty, queries, auth, db>>
  /\ IF SkillsErrors(skills.body) # {}
     THEN skills' = SkillsAnswer(skills.stored, 400, "Validation failed")
     ELSE skills' = [skills EXCEPT !.pc = "delete"]

\* DELETE FROM JobSeekerSkills WHERE jobseeker_id = @jobseekerId
SkillsDelete ==
  /\ skills.pc = "delete"
  /\ UNCHANGED <<jobs, applications, savedJobs, req, resp, viewTasks, viewBudget, calls,
                 acc, pagesDone, dirty, queries, auth, db>>
  /\ \/ skills' = SkillsAnswer(skills.stored, 500, "Failed to update skills")
     \/ skills' = SkillsNext({}, 1)

\* INSERT INTO JobSeekerSkills ... of the skill the loop is at.
SkillsInsert ==
  /\ skills.pc = "insert"
  /\ UNCHANGED <<jobs, applications, savedJobs, req, resp, viewTasks, viewBudget, calls,
                 acc, pagesDone, dirty, queries, auth, db>>
  /\ \/ skills' = SkillsAnswer(skills.stored, 500, "Failed to update skills")
     \/ skills' = SkillsNext(skills.stored \cup {Val(skills.body)[skills.i]}, skills.i + 1)

(***************************************************************************)
(* config/database.js: poolPromise and the callers of connectDB, getDB and *)
(* executeQuery.  A caller runs without interruption up to its next await. *)
(***************************************************************************)
DbCallers == 1 .. MaxCalls + 1

\* poolPromise (0: undefined, else the number of the promise it holds), the
\* state of each promise `new sql.ConnectionPool(dbConfig).connect()`
\* returned, in the order of construction, and for every caller its entry
\* point, the await it is at and the promise it awaits.
Pool(poolPromise, promises, callers) ==
  [poolPromise |-> poolPromise, promises |-> promises, callers |-> callers]

DbCaller(entry, pc, awaits) == [entry |-> entry, pc |-> pc, awaits |-> awaits]

NoPool == Pool(0, << >>, [c \in DbCallers |-> DbCaller("", "idle", 0)])

\* !poolPromise
NotConnected(d) == d.poolPromise = 0 \/ d.promises[d.poolPromise] # "resolved"

NotCreated(d) == d.poolPromise = 0

\* connectDB up to `await poolPromise`, run by the caller c.
ConnectDB(c, entry) ==
  LET promises == IF NotCreated(db) THEN Append(db.promises, "pending") ELSE db.promises
      poolPromise == IF NotCreated(db) THEN Len(promises) ELSE db.poolPromise
  IN  db' = Pool(poolPromise, promises,
                 [db.callers EXCEPT ![c] = DbCaller(entry, "connectDB", poolPromise)])

DbArrives(c) == db.callers[c].pc = "idle" /\ (c > 1 => db.callers[c - 1].pc # "idle")

\* A call of connectDB.
CallConnectDB(c) ==
  /\ DbArrives(c)
  /\ UNCHANGED <<jobs, applications, savedJobs, req, resp, viewTasks, viewBudget, calls,
                 acc, pagesDone, dirty, queries, auth, skills>>
  /\ ConnectDB(c, "connectDB")

\* A call of getDB, by its caller or by executeQuery, up to its first await.
CallGetDB(c, entry) ==
  /\ DbArrives(c)
  /\ UNCHANGED <<jobs, applications, savedJobs, req, resp, viewTasks, viewBudget, calls,
                 acc, pagesDone, dirty, queries, auth, skills>>
  /\ IF NotCreated(db)
     THEN ConnectDB(c, entry)
     ELSE db' = [db EXCEPT !.callers[c] = DbCaller(entry, "getDB", db.poolPromise)]

\* The connection attempt of a promise ends.
Settle(id, outcome) ==
  /\ id \in 1 .. Len(db.promises)
  /\ db.promises[id] = "pending"
  /\ UNCHANGED <<jobs, applications, savedJobs, req, resp, viewTasks, viewBudget, calls,
                 acc, pagesDone, dirty, queries, auth, skills>>
  /\ db' = [db EXCEPT !.promises[id] = outcome]

\* `const pool = await poolPromise` of connectDB resumes: connectDB returns
\* the pool, and getDB goes on to `return await poolPromise`; or it throws.
ResumeConnectDB(c) ==
  /\ db.callers[c].pc = "connectDB"
  /\ db.promises[db.callers[c].awaits] # "pending"
  /\ UNCHANGED <<jobs, applications, savedJobs, req, resp, viewTasks, viewBudget, calls,
                 acc, pagesDone, dirty, queries, auth, skills>>
  /\ db' = [db EXCEPT !.callers[c] =
       IF db.promises[@.awaits] = "rejected" THEN DbCaller(@.entry, "failed", @.awaits)
       ELSE IF @.entry = "connectDB" THEN DbCaller(@.entry, "done", @.awaits)
       ELSE DbCaller(@.entry, "getDB", db.poolPromise)]

\* `return await poolPromise` of getDB resumes.
ResumeGetDB(c) ==
  /\ db.callers[c].pc = "getDB"
  /\ db.promises[db.callers[c].awaits] # "pending"
  /\ UNCHANGED <<jobs, applications, savedJobs, req, resp, viewTasks, viewBudget, calls,
                 acc, pagesDone, dirty, queries, auth, skills>>
  /\ db' = [db EXCEPT !.callers[c] =
       IF db.promises[@.awaits] = "rejected" THEN DbCaller(@.entry, "failed", @.awaits)
       ELSE DbCaller(@.entry, "done", @.awaits)]


(***************************************************************************)
(* Spec: pagination, ordering and annotation gating of the three routes,   *)
(* over every store of MaxJobs rows drawn from PageRows, with no jobseeker *)
(* write and a store that admits no background update.                     *)
(***************************************************************************)
\* Rows that differ from BaseRow in one column the WHERE or ORDER BY of an
\* unfiltered request reads.
PageRows ==
  {BaseRow,
   [BaseRow EXCEPT !.status = "closed"],
   [BaseRow EXCEPT !.application_deadline = Some(Today - 1)],
   [BaseRow EXCEPT !.posted_date = Today - 3],
   [BaseRow EXCEPT !.company_id = 2]}

PageInputs == {Null} \cup {Some(s) : s \in {d \in DigitStrings : ToNumber(d) <= MaxPage}}
LimitInputs == {Null, Some("0"), Some("1"), Some("2"), Some("51")}
BodyPageInputs == {Null} \cup {Some(n) : n \in 0 .. MaxPage}
BodyLimitInputs == {Null, Some(0), Some(1), Some(2), Some(51)}

\* The callers of Spec are anonymous; SpecConc has the authenticated ones.
Users == {Null}

\* The searches of Spec: every sort key, page size and caller, no filter.
PageSearches ==
  {[EmptyList EXCEPT !.limit = lm, !.sort_by = sb, !.sort_order = so, !.user = u] :
     lm \in LimitInputs, sb \in {Null, Some("salary_min"), Some("company_name")},
     so \in {Null, Some("asc")}, u \in Users}
  \cup
  {[EmptySearch EXCEPT !.limit = lm, !.sort_by = sb, !.user = u] :
     lm \in BodyLimitInputs, sb \in {Null, Some("salary"), Some("company_name")},
     u \in Users}
  \cup
  {[EmptyCompany(c) EXCEPT !.limit = lm, !.user = u] :
     c \in {"1", "3"}, lm \in LimitInputs, u \in Users}

NoCalls == [c \in 1 .. MaxCalls |-> Call("idle", "", 0, "", Null)]

InitIdle ==
  /\ applications = [k \in JobIds \X Seekers |-> 0]
  /\ savedJobs = [k \in JobIds \X Seekers |-> 0]
  /\ resp = NoResponse
  /\ viewTasks = [ids \in SUBSET JobIds |-> 0]
  /\ calls = NoCalls
  /\ acc = << >>
  /\ pagesDone = 0
  /\ dirty = FALSE
  /\ queries = << >>
  /\ auth = NoAuth

InitCommon ==
  /\ InitIdle
  /\ skills = NoSkillsRun
  /\ db = NoPool

Init ==
  /\ jobs \in [JobIds -> PageRows]
  /\ req \in PageSearches
  /\ viewBudget = 0
  /\ InitCommon

\* The client fetches a page of its search.
Next ==
  \/ \E pg \in PageInputs : GetJobs([req EXCEPT !.page = pg])
  \/ \E pg \in BodyPageInputs : SearchJobs([req EXCEPT !.page = pg])
  \/ \E pg \in PageInputs : GetCompanyJobs([req EXCEPT !.page = pg])

Spec == Init /\ [][Next]_vars


(***************************************************************************)
(* SpecFilter: the filters of GET / and POST /search.  One request with at *)
(* most MaxVary filter fields present, default page and page size, on a    *)
(* store whose first row is drawn from FilterRows and whose other rows are *)
(* BaseRow.                                                                *)
(***************************************************************************)
ListFilterFields ==
  {"search", "location", "job_type", "experience_level", "remote_work_option",
   "salary_min", "salary_max", "industry"}

\* salary_range.min and salary_range.max are the members of body.salary_range.
SearchFilterFields ==
  {"keywords", "location", "job_types", "experience_levels", "industries",
   "salary_range.min", "salary_range.max", "remote_only", "posted_within_days",
   "company_size"}

\* Rows that differ from BaseRow in the columns the filters read.
FilterRows ==
  {BaseRow,
   [BaseRow EXCEPT !.status = "closed"],
   [BaseRow EXCEPT !.application_deadline = Some(Today - 1)],
   [BaseRow EXCEPT !.company_id = 2],
   [BaseRow EXCEPT !.title = Some(<<3>>), !.company_id = 2],
   [BaseRow EXCEPT !.location = Some(<<2>>)],
   [BaseRow EXCEPT !.location = Null],
   [BaseRow EXCEPT !.job_type = "Part-time"],
   [BaseRow EXCEPT !.experience_level = "Senior-level"],
   [BaseRow EXCEPT !.remote_work_option = "No"],
   [BaseRow EXCEPT !.remote_work_option = "Hybrid"],
   [BaseRow EXCEPT !.industry = Some(<<2>>)],
   [BaseRow EXCEPT !.industry = Null],
   [BaseRow EXCEPT !.salary_min = Null],
   [BaseRow EXCEPT !.salary_max = Null],
   [BaseRow EXCEPT !.salary_min = Some(1), !.salary_max = Some(1)],
   [BaseRow EXCEPT !.salary_min = Some(3), !.salary_max = Some(3)],
   [BaseRow EXCEPT !.salary_min = Null, !.salary_max = Some(3)],
   [BaseRow EXCEPT !.posted_date = Today - 3],
   [BaseRow EXCEPT !.status = "closed", !.location = Some(<<2>>)],
   [BaseRow EXCEPT !.location = Some(<<2>>), !.job_type = "Part-time"]}

\* The values of a field of the request: vals when the field is one of the
\* present ones, absent otherwise.
Pick(present, field, vals) == IF field \in present THEN vals ELSE {Null}

\* The requests of GET / whose present filter fields are exactly `present`.
ListFilterRequests(present) ==
  {[EmptyList EXCEPT !.search = se, !.location = lo, !.job_type = jt,
                     !.experience_level = el, !.remote_work_option = rw,
                     !.salary_min = mn, !.salary_max = mx, !.industry = ind] :
     se \in Pick(present, "search", {Some(<<1>>), Some(<<4>>), Some(<< >>)}),
     lo \in Pick(present, "location", {Some(<<1>>), Some(<<2>>)}),
     jt \in Pick(present, "job_type", {Some("Full-time"), Some("Part-time"), Some("Temp")}),
     el \in Pick(present, "experience_level", {Some("Mid-level"), Some("Senior-level")}),
     rw \in Pick(present, "remote_work_option", {Some("Yes"), Some("No")}),
     mn \in Pick(present, "salary_min", {Some("0"), Some("2"), Some("3")}),
     mx \in Pick(present, "salary_max", {Some("0"), Some("2"), Some("3")}),
     ind \in Pick(present, "industry", {Some(<<1>>), Some(<<2>>)})}

\* body.salary_range from its two members.
SalaryRange(mn, mx) ==
  IF IsNull(mn) /\ IsNull(mx) THEN Null ELSE Some([min |-> mn, max |-> mx])

\* The requests of POST /search whose present filter fields are exactly `present`.
SearchFilterRequests(present) ==
  {[EmptySearch EXCEPT !.keywords = kw, !.location = lo, !.job_types = jt,
                       !.experience_levels = el, !.industries = ind,
                       !.salary_range = SalaryRange(mn, mx), !.remote_only = ro,
                       !.posted_within_days = pw, !.company_size = cs] :
     kw \in Pick(present, "keywords", {Some(<<1>>), Some(<<4>>), Some(<< >>)}),
     lo \in Pick(present, "location", {Some(<<1>>), Some(<<2>>)}),
     jt \in Pick(present, "job_types",
                 {Some(<< >>), Some(<<"Part-time">>), Some(<<"Part-time", "Full-time">>)}),
     el \in Pick(present, "experience_levels", {Some(<<"Mid-level">>), Some(<<"Senior-level">>)}),
     ind \in Pick(present, "industries", {Some(<< <<1>> >>), Some(<< <<2>> >>)}),
     mn \in Pick(present, "salary_range.min", {Some(0), Some(2), Some(3)}),
     mx \in Pick(present, "salary_range.max", {Some(0), Some(2), Some(3)}),
     ro \in Pick(present, "remote_only", {Some(TRUE), Some(FALSE)}),
     pw \in Pick(present, "posted_within_days", {Some(0), Some(1), Some(2)}),
     cs \in Pick(present, "company_size", {Some(<<"1-10">>), Some(<<"11-50">>)})}

FilterSearches ==
  UNION {ListFilterRequests(present) :
           present \in {s \in SUBSET ListFilterFields : Cardinality(s) <= MaxVary}}
  \cup
  UNION {SearchFilterRequests(present) :
           present \in {s \in SUBSET SearchFilterFields : Cardinality(s) <= MaxVary}}

InitFilter ==
  /\ \E row \in FilterRows : jobs = [id \in JobIds |-> IF id = 1 THEN row ELSE BaseRow]
  /\ req \in FilterSearches
  /\ viewBudget = 0
  /\ InitCommon

\* The client sends its search.
NextFilter ==
  \/ GetJobs(req)
  \/ SearchJobs(req)

SpecFilter == InitFilter /\ [][NextFilter]_vars


(***************************************************************************)
(* SpecConc: the searches of every kind of caller on the three routes,     *)
(* interleaved with at most MaxCalls apply and save requests of a          *)
(* jobseeker, on a store whose rows differ in posted_date only.            *)
(***************************************************************************)
\* req.user as optionalAuth leaves it: unset, a company, a jobseeker.
Callers == {Null, Some(CompanyUser)} \cup {Some(SeekerUser(s)) : s \in Seekers}

\* The jobseeker who writes, and the :jobId values it sends.
Writers == {1}
WriteTargets == {"1", "5", "x"}

ConcSearches ==
  {[EmptyList EXCEPT !.user = u] : u \in Callers}
  \cup {[EmptySearch EXCEPT !.user = u] : u \in Callers}
  \cup {[EmptyCompany("1") EXCEPT !.user = u] : u \in Callers}

InitConc ==
  /\ jobs = [id \in JobIds |-> [BaseRow EXCEPT !.posted_date = Today - id]]
  /\ req \in ConcSearches
  /\ viewBudget = 0
  /\ InitCommon

NextConc ==
  \/ GetJobs(req)
  \/ SearchJobs(req)
  \/ GetCompanyJobs(req)
  \/ \E c \in 1 .. MaxCalls, s \in Writers, t \in WriteTargets : ApplyJob(c, s, t)
  \/ \E c \in 1 .. MaxCalls : ApplyExisting(c)
  \/ \E c \in 1 .. MaxCalls : ApplyInsert(c)
  \/ \E c \in 1 .. MaxCalls, s \in Writers, t \in WriteTargets : SaveJob(c, s, t)
  \/ \E c \in 1 .. MaxCalls : SaveExisting(c)
  \/ \E c \in 1 .. MaxCalls : SaveDelete(c)
  \/ \E c \in 1 .. MaxCalls : SaveInsert(c)

SpecConc == InitConc /\ [][NextConc]_vars


(***************************************************************************)
(* SpecViews: the listing and the detail fetch with their background       *)
(* view-count updates, of which the store admits MaxViews; an update is    *)
(* applied, fails, or stays pending; and the trending read.                *)
(***************************************************************************)
ViewRows ==
  {BaseRow,
   [BaseRow EXCEPT !.status = "closed"],
   [BaseRow EXCEPT !.posted_date = Today - 3, !.job_type = "Part-time"]}

ViewSearches ==
  {[EmptyList EXCEPT !.limit = lm] : lm \in {Null, Some("1")}}
  \cup {EmptyDetail(id) : id \in {"1", "2", "5", "x"}}
  \cup {[EmptyTrending EXCEPT !.limit = lm] : lm \in {Null, Some("1"), Some("x")}}

InitViews ==
  /\ jobs \in [JobIds -> ViewRows]
  /\ req \in ViewSearches
  /\ viewBudget = MaxViews
  /\ InitCommon

NextViews ==
  \/ GetJobs(req)
  \/ GetJob(req)
  \/ GetTrending(req)
  \/ \E ids \in SUBSET JobIds : ViewUpdate(ids)
  \/ \E ids \in SUBSET JobIds : ViewFail(ids)

SpecViews == InitViews /\ [][NextViews]_vars


(***************************************************************************)
(* SpecAuth: one request with any Authorization header through the         *)
(* middleware chain of its router.                                         *)
(***************************************************************************)
Tokens ==
  {Token(k, 0) : k \in {"empty", "malformed", "forged"}}
  \cup {Token(k, 1) : k \in {"expired", "notbefore"}}
  \cup {Token("valid", u) : u \in 1 .. 6}

Authorizations ==
  {Null, Some(<<"Bearer">>)}
  \cup {Some(<<scheme, t>>) : scheme \in {"Bearer", "Token"}, t \in Tokens}

AuthRequests ==
  {[route |-> r, authorization |-> h, user |-> Null] :
     r \in {"jobs", "jobseekers", "companies"}, h \in Authorizations}

InitAuth ==
  /\ jobs = [id \in JobIds |-> BaseRow]
  /\ req \in AuthRequests
  /\ viewBudget = 0
  /\ InitCommon

NextAuth ==
  \/ OptionalAuth
  \/ AuthenticateToken
  \/ RequireJobSeeker
  \/ RequireCompany

SpecAuth == InitAuth /\ [][NextAuth]_vars


(***************************************************************************)
(* SpecTrend: GET /trending/popular with any limit, over every store of    *)
(* MaxJobs rows drawn from TrendRows.                                      *)
(***************************************************************************)
\* BaseRow with the given counters, posted_date and status.
TrendRow(views, apps, posted, status) ==
  [BaseRow EXCEPT !.views_count = views, !.current_applications = apps,
                  !.posted_date = posted, !.status = status]

TrendRows ==
  {TrendRow(100, 10, Today - 1, "active"),
   TrendRow(80, 40, Today - 2, "active"),
   TrendRow(0, 0, Today - 1, "active"),
   TrendRow(3, 0, Today - 2, "active"),
   TrendRow(0, 7, Today - 1, "active"),
   TrendRow(100, 10, Today - 1, "closed"),
   TrendRow(100, 40, Today - 31, "active"),
   TrendRow(1, 0, Today - 30, "active")}

TrendSearches ==
  {[EmptyTrending EXCEPT !.limit = lm] :
     lm \in {Null, Some("0"), Some("1"), Some("2"), Some("x")}}

InitTrend ==
  /\ jobs \in [JobIds -> TrendRows]
  /\ req \in TrendSearches
  /\ viewBudget = MaxViews
  /\ InitCommon

NextTrend == GetTrending(req)

SpecTrend == InitTrend /\ [][NextTrend]_vars


(***************************************************************************)
(* SpecOrder: every sort key of GET / and POST /search, with and without   *)
(* keywords, over every store of MaxJobs rows drawn from OrderRows.        *)
(***************************************************************************)
\* Rows that differ in the columns the ORDER BY clauses read.  For the
\* keyword <<3>>: company 1 is named <<1, 3>> and company 2 <<2>>.
OrderRows ==
  {[BaseRow EXCEPT !.title = Some(<<3>>), !.company_id = 2, !.posted_date = Today - 3],
   [BaseRow EXCEPT !.title = Some(<<1, 3>>)],
   BaseRow,
   [BaseRow EXCEPT !.posted_date = Today - 2],
   [BaseRow EXCEPT !.company_id = 2],
   [BaseRow EXCEPT !.company_id = 2, !.description = Some(<<2>>),
                   !.requirements = Some(<<3>>)],
   [BaseRow EXCEPT !.company_id = 2, !.description = Some(<<2>>)],
   [BaseRow EXCEPT !.salary_min = Some(1), !.salary_max = Some(3)],
   [BaseRow EXCEPT !.salary_min = Some(1), !.salary_max = Some(2)],
   [BaseRow EXCEPT !.salary_min = Null, !.salary_max = Null]}

OrderSearches ==
  {[EmptyList EXCEPT !.sort_by = sb, !.sort_order = so] :
     sb \in {Null, Some("salary_min"), Some("title"), Some("company_name"),
             Some("salary")},
     so \in {Null, Some("asc"), Some("desc")}}
  \cup
  {[EmptySearch EXCEPT !.keywords = kw, !.sort_by = sb] :
     kw \in {Null, Some(<<3>>), Some(<< >>)},
     sb \in {Null, Some("relevance"), Some("posted_date"), Some("salary"),
             Some("company_name")}}

InitOrder ==
  /\ jobs \in [JobIds -> OrderRows]
  /\ req \in OrderSearches
  /\ viewBudget = 0
  /\ InitCommon

NextOrder ==
  \/ GetJobs(req)
  \/ SearchJobs(req)

SpecOrder == InitOrder /\ [][NextOrder]_vars


(***************************************************************************)
(* SpecCount: listing fetches, advanced searches and detail fetches        *)
(* interleaved with their view-count updates, each of which is applied;    *)
(* the store admits MaxViews + 1 of them.                                  *)
(***************************************************************************)
CountRows ==
  {BaseRow,
   [BaseRow EXCEPT !.views_count = 3],
   [BaseRow EXCEPT !.status = "closed"],
   [BaseRow EXCEPT !.posted_date = Today - 3]}

CountSearches ==
  {[EmptyList EXCEPT !.limit = lm] : lm \in {Null, Some("0"), Some("1")}}
  \cup {[EmptySearch EXCEPT !.limit = lm] : lm \in {Null, Some(1)}}
  \cup {EmptyDetail(id) : id \in {"1", "2", "5", "x"}}

InitCount ==
  /\ jobs \in [JobIds -> CountRows]
  /\ req \in CountSearches
  /\ viewBudget = MaxViews + 1
  /\ InitCommon

NextCount ==
  \/ GetJobs(req)
  \/ SearchJobs(req)
  \/ GetJob(req)
  \/ \E ids \in SUBSET JobIds : ViewUpdate(ids)

SpecCount == InitCount /\ [][NextCount]_vars


(***************************************************************************)
(* SpecApply: at most MaxCalls apply requests of the jobseekers, which     *)
(* may overlap, and the listing fetch, at one instant of the day Today,    *)
(* on a store whose listing 1 is drawn from ApplyRows.                     *)
(***************************************************************************)
ApplyRows ==
  {BaseRow,
   [BaseRow EXCEPT !.max_applications = Some(1)],
   [BaseRow EXCEPT !.max_applications = Some(1), !.current_applications = 1],
   [BaseRow EXCEPT !.application_deadline = Some(Today)],
   [BaseRow EXCEPT !.application_deadline = Some(Today - 1)],
   [BaseRow EXCEPT !.application_deadline = Some(Today + 1)],
   [BaseRow EXCEPT !.status = "closed"]}

ApplyTargets == {"1", "2", "x"}

InitApply ==
  /\ \E row \in ApplyRows : jobs = [id \in JobIds |-> IF id = 1 THEN row ELSE BaseRow]
  /\ req = EmptyList
  /\ viewBudget = 0
  /\ InitCommon

NextApply ==
  \/ GetJobs(req)
  \/ \E c \in 1 .. MaxCalls, s \in Seekers, t \in ApplyTargets : ApplyJob(c, s, t)
  \/ \E c \in 1 .. MaxCalls : ApplyExisting(c)
  \/ \E c \in 1 .. MaxCalls : ApplyInsert(c)

SpecApply == InitApply /\ [][NextApply]_vars


(***************************************************************************)
(* SpecSkills: one POST /skills request, each statement of which is        *)
(* applied or fails, on every stored skill set.                            *)
(***************************************************************************)
StoredSkills == {Skill(1, "Beginner"), Skill(2, "Expert"), Skill(3, "Advanced")}

SkillBodies ==
  {Null, Some(<< >>), Some(<<Skill(1, "Expert")>>), Some(<<Skill(2, "Expert")>>),
   Some(<<Skill(1, "Beginner"), Skill(2, "Expert")>>),
   Some(<<Skill(3, "Advanced"), Skill(4, "Intermediate")>>),
   Some(<<Skill(2, "Guru")>>)}

InitSkills ==
  /\ jobs = [id \in JobIds |-> BaseRow]
  /\ req = EmptyList
  /\ viewBudget = 0
  /\ InitIdle
  /\ \E stored \in SUBSET StoredSkills, body \in SkillBodies :
       skills = SkillsRun(stored, stored, body, "idle", 0, NoResponse)
  /\ db = NoPool

NextSkills ==
  \/ PostSkills
  \/ SkillsDelete
  \/ SkillsInsert

SpecSkills == InitSkills /\ [][NextSkills]_vars

(***************************************************************************)
(* SpecPool: MaxCalls + 1 callers of connectDB, getDB and executeQuery, in *)
(* every interleaving with each other and with the connection attempt,     *)
(* which succeeds or fails.                                                *)
(***************************************************************************)
InitPool ==
  /\ jobs = [id \in JobIds |-> BaseRow]
  /\ req = EmptyList
  /\ viewBudget = 0
  /\ InitCommon

NextPool ==
  \/ \E c \in DbCallers : CallConnectDB(c)
  \/ \E c \in DbCallers, entry \in {"getDB", "executeQuery"} : CallGetDB(c, entry)
  \/ \E id \in DbCallers, outcome \in {"resolved", "rejected"} : Settle(id, outcome)
  \/ \E c \in DbCallers : ResumeConnectDB(c)
  \/ \E c \in DbCallers : ResumeGetDB(c)

SpecPool == InitPool /\ [][NextPool]_vars


(***************************************************************************)
(* What a request asks for, whatever its route.                            *)
(***************************************************************************)
ErrorsOf(q) ==
  CASE q.route = "list" -> ListErrors(q)
    [] q.route = "search" -> SearchErrors(q)
    [] q.route = "company" -> CompanyErrors(q)

WhereOf(q) ==
  CASE q.route = "list" -> ListWhere(q)
    [] q.route = "search" -> SearchWhere(q)
    [] q.route = "company" -> CompanyWhere(q)

ParamsOf(q) ==
  CASE q.route = "list" -> ListParams(q)
    [] q.route = "search" -> SearchParams(q)
    [] q.route = "company" -> CompanyParams(q)

OrderByOf(q) ==
  CASE q.route = "list" -> ListOrderBy(q)
    [] q.route = "search" -> SearchOrderBy(q)
    [] q.route = "company" -> CompanyOrderBy(q)

\* The listings of the store that satisfy the request's predicate set.
Matching(q) == Selected(jobs, WhereOf(q), ParamsOf(q))

\* A response has been sent, and it is a successful page.
Answered == resp.status # 0
Succeeded == resp.status = 200

\* ceil(matching / limit) of the request answered last.
TrueTotalPages == Ceil(Cardinality(Matching(req)), ReqLimit(req))

(***************************************************************************)
(* Claims checked under Spec.                                              *)
(***************************************************************************)
\* C1: in every successful response of the three paginated routes,
\* pagination.total is the number of listings of the store that satisfy the
\* request's predicate set, for every valid page, a page past the last one
\* included.  (Spec has no write at all.)
C1_TotalIsMatchCount ==
  Succeeded => resp.pagination.total = Cardinality(Matching(req))

\* C2: a successful response holds at most `limit` items, and its total is
\* at least the number of items.
C2_PageWithinLimit ==
  Succeeded =>
    /\ Len(resp.jobs) <= ReqLimit(req)
    /\ resp.pagination.total >= Len(resp.jobs)

\* C2's case: a full page of a result that has more listings than the page.
C2_Witness ==
  /\ Succeeded
  /\ Len(resp.jobs) = ReqLimit(req)
  /\ Cardinality(Matching(req)) > ReqLimit(req)

\* C3: the pages 1 .. totalPages of one search, fetched in sequence with no
\* write in between, concatenate to exactly totalCount distinct listings:
\* none repeated, none of the matching ones missing, in the order of the
\* sort key, also when listings are equal on the sort key.
C3_PagesPartitionResult ==
  (Succeeded /\ pagesDone >= 1 /\ pagesDone = resp.pagination.totalPages) =>
    /\ Len(acc) = resp.pagination.total
    /\ \A i, k \in 1 .. Len(acc) : i # k => acc[i] # acc[k]
    /\ {acc[i] : i \in 1 .. Len(acc)} = Matching(req)
    /\ \A i, k \in 1 .. Len(acc) :
         i < k => ~RowBefore(OrderByOf(req), Joined(jobs, acc[k]),
                             Joined(jobs, acc[i]), ParamsOf(req))

\* C4: the identical search issued twice in sequence, with no write by
\* another client in between, gets the same items (same listings, order
\* and field values) and the same total.
C4_RepeatedSearchIdentical ==
  [][(Succeeded /\ resp'.status = 200 /\ req' = req /\ ~dirty /\ ~dirty')
       => (resp'.jobs = resp.jobs
           /\ resp'.pagination.total = resp.pagination.total)]_vars

\* C5: a valid request of GET / or POST /search for a page past the last
\* one that the store answers succeeds with no items.
C5_PastLastPageEmpty ==
  (/\ Answered
   /\ req.route \in {"list", "search"}
   /\ ErrorsOf(req) = {}
   /\ resp.status # 500
   /\ ReqPage(req) > TrueTotalPages)
  => (Succeeded /\ resp.jobs = << >>)

\* C5's case: a page past the last one of a search that matches something.
C5_Witness ==
  /\ Succeeded
  /\ req.route \in {"list", "search"}
  /\ Cardinality(Matching(req)) > 0
  /\ ReqPage(req) > TrueTotalPages
  /\ resp.jobs = << >>

\* C6: on every search route and for every input, each returned listing is
\* active and its application deadline is unset or not passed.
C6_OnlyOpenListings ==
  Succeeded =>
    \A i \in 1 .. Len(resp.jobs) :
       LET row == jobs[resp.jobs[i].job_id]
       IN  /\ row.status = "active"
           /\ (IsNull(row.application_deadline)
               \/ Val(row.application_deadline) >= Today)


(***************************************************************************)
(* The filter fields of a request, one at a time.                          *)
(***************************************************************************)
FilterFieldsOf(q) ==
  CASE q.route = "list" -> ListFilterFields
    [] q.route = "search" -> SearchFilterFields
    [] OTHER -> {}

\* The value the request carries in a filter field.
FieldOf(q, f) ==
  CASE f = "salary_range.min" ->
         IF IsNull(q.salary_range) THEN Null ELSE Val(q.salary_range).min
    [] f = "salary_range.max" ->
         IF IsNull(q.salary_range) THEN Null ELSE Val(q.salary_range).max
    [] OTHER -> q[f]

\* The request with the filter field f set to v.
WithField(q, f, v) ==
  CASE f = "salary_range.min" ->
         [q EXCEPT !.salary_range = SalaryRange(v, FieldOf(q, "salary_range.max"))]
    [] f = "salary_range.max" ->
         [q EXCEPT !.salary_range = SalaryRange(FieldOf(q, "salary_range.min"), v)]
    [] OTHER -> [q EXCEPT ![f] = v]

\* The filter fields the request carries.
Present(q) == {f \in FilterFieldsOf(q) : ~IsNull(FieldOf(q, f))}

\* The same request with no filter field, with the field f alone, and
\* without the field f.
NoFilter(q) ==
  [x \in DOMAIN q |->
     IF x \in FilterFieldsOf(q) \cup {"salary_range"} THEN Null ELSE q[x]]
Only(q, f) == WithField(NoFilter(q), f, FieldOf(q, f))
Without(q, f) == WithField(q, f, Null)

C8_OpenRangeSalary ==
  (Succeeded /\ req.route \in {"list", "search"}) =>
    LET mnf == IF req.route = "list" THEN "salary_min" ELSE "salary_range.min"
        mxf == IF req.route = "list" THEN "salary_max" ELSE "salary_range.max"
        num(x) == IF req.route = "list" THEN ToNumber(Val(x)) ELSE Val(x)
    IN  /\ ~IsNull(FieldOf(req, mnf)) =>
             IdSet(resp.jobs) =
               {id \in Matching(Without(req, mnf)) :
                  \/ IsNull(jobs[id].salary_min)
                  \/ Val(jobs[id].salary_min) >= num(FieldOf(req, mnf))}
        /\ ~IsNull(FieldOf(req, mxf)) =>
             IdSet(resp.jobs) =
               {id \in Matching(Without(req, mxf)) :
                  \/ IsNull(jobs[id].salary_max)
                  \/ Val(jobs[id].salary_max) <= num(FieldOf(req, mxf))}


(***************************************************************************)
(* Claims checked under SpecConc.                                          *)
(***************************************************************************)
\* The caller of the request is a jobseeker.
IsJobseeker(q) == ~IsNull(q.user) /\ Val(q.user).userType = "jobseeker"

\* C9: when the request carries no identity or the identity is not a
\* jobseeker, no returned item has the has_applied or the is_saved field;
\* when the identity is a jobseeker, every returned item has both.
C9_AnnotationsGated ==
  Succeeded =>
    \A i \in 1 .. Len(resp.jobs) :
       IF IsJobseeker(req)
       THEN {"has_applied", "is_saved"} \subseteq DOMAIN resp.jobs[i]
       ELSE {"has_applied", "is_saved"} \cap DOMAIN resp.jobs[i] = {}

\* C9's case: a company's search returned listings, after a jobseeker's
\* application reached the store.
C9_Witness ==
  /\ Succeeded
  /\ ~IsNull(req.user) /\ Val(req.user).userType = "company"
  /\ Len(resp.jobs) > 0
  /\ \E k \in DOMAIN applications : applications[k] > 0

\* C10: in the response to a jobseeker, with no write since, has_applied
\* (resp. is_saved) of every item is a presence value: 1 exactly when an
\* Applications (resp. SavedJobs) row exists for the item and the
\* jobseeker, 0 otherwise.
C10_AnnotationsArePresence ==
  (Succeeded /\ ~dirty /\ IsJobseeker(req) /\ ~IsNull(Val(req.user).jobseekerId)) =>
    \A i \in 1 .. Len(resp.jobs) :
       LET item == resp.jobs[i]
           k == <<item.job_id, Val(Val(req.user).jobseekerId)>>
       IN  /\ item.has_applied \in {0, 1}
           /\ item.has_applied = 1 <=> applications[k] > 0
           /\ item.is_saved \in {0, 1}
           /\ item.is_saved = 1 <=> savedJobs[k] > 0


(***************************************************************************)
(* Claims checked under SpecViews.                                         *)
(***************************************************************************)
\* C11: the response of a listing or detail fetch is sent when the
\* view-count update is dispatched; when the update later is applied or
\* fails, the response (status and payload) stays what it was, and an
\* update that never completes holds nothing back.
C11_ViewUpdateNeverSurfaces ==
  [][(\E ids \in SUBSET JobIds : viewTasks'[ids] < viewTasks[ids]) => resp' = resp]_vars

\* C11's case: a fetch answered 200 whose dispatched update has failed.
C11_Witness ==
  /\ resp.status = 200
  /\ viewBudget < MaxViews
  /\ \A ids \in SUBSET JobIds : viewTasks[ids] = 0
  /\ \A id \in JobIds : jobs[id].views_count = 0


(***************************************************************************)
(* Claims checked under SpecAuth.                                          *)
(***************************************************************************)
\* The credential of the request: a token that verifies and names a
\* verified user.
GoodCredential ==
  LET token == TokenOf(req.authorization)
  IN  /\ ~IsNull(token)
      /\ Val(token).kind = "valid"
      /\ Val(token).userId \in DOMAIN UserRows
      /\ UserRows[Val(token).userId].is_verified

\* C12: once optionalAuth has run, it has called next exactly once and has
\* sent no response; and when the credential is missing, malformed,
\* expired, names an unknown or unverified user, or the user lookup failed,
\* req.user is unset.
C12_OptionalAuthFailOpen ==
  (req.route = "jobs" /\ auth.pc # "") =>
    /\ auth.passed = <<"optionalAuth">>
    /\ auth.sent = << >>
    /\ auth.pc = "handler"
    /\ (~GoodCredential \/ auth.lookup = "failed") => IsNull(req.user)

\* C12's case: optionalAuth has run on a token that names an unverified user.
C12_Witness ==
  /\ req.route = "jobs" /\ auth.pc = "handler"
  /\ ~IsNull(TokenOf(req.authorization))
  /\ Val(TokenOf(req.authorization)) = Token("valid", 2)
  /\ auth.lookup = "ok"
  /\ IsNull(req.user)

\* C13: authenticateToken calls next only when the token verifies and the
\* user exists and is verified, and then req.user is set; in every other
\* case it sends exactly one error response and does not call next, so the
\* request reaches neither requireJobSeeker, requireCompany nor a handler.
C13_AuthenticateTokenRejects ==
  (req.route \in {"jobseekers", "companies"} /\ auth.pc # "") =>
    IF GoodCredential /\ auth.lookup = "ok"
    THEN /\ auth.passed[1] = "authenticateToken"
         /\ \A i \in 2 .. Len(auth.passed) : auth.passed[i] # "authenticateToken"
         /\ ~IsNull(req.user)
    ELSE /\ auth.passed = << >>
         /\ auth.pc = "ended"
         /\ Len(auth.sent) = 1
         /\ auth.sent[1].status \in {401, 500}
         /\ IsNull(req.user)

\* C13's case: authenticateToken has rejected an expired token.
C13_Witness ==
  /\ req.route = "jobseekers"
  /\ ~IsNull(TokenOf(req.authorization))
  /\ Val(TokenOf(req.authorization)).kind = "expired"
  /\ auth.pc = "ended"
  /\ auth.sent = <<Rejected(401, "Token expired")>>


(***************************************************************************)
(* Validation of the window (Spec) and store failures (SpecViews).         *)
(***************************************************************************)
\* The request asks for a page below 1 or a page size outside 1 .. 50.
InvalidWindow(q) ==
  CASE q.route = "search" ->
         \/ ~IsNull(q.page) /\ Val(q.page) < 1
         \/ ~IsNull(q.limit) /\ (Val(q.limit) < 1 \/ Val(q.limit) > 50)
    [] q.route \in {"list", "company"} ->
         \/ ~IsNull(q.page) /\ ToNumber(Val(q.page)) < 1
         \/ ~IsNull(q.limit) /\ (ToNumber(Val(q.limit)) < 1 \/ ToNumber(Val(q.limit)) > 50)
    [] OTHER -> FALSE

\* C14: a request of GET /, POST /search or GET /company/:companyId with
\* page < 1 or limit outside 1 .. 50 is answered 400 "Validation failed",
\* no statement is sent to the store, no update is dispatched and the
\* store is unchanged.
C14_InvalidWindowRejected ==
  [][InvalidWindow(req') =>
       /\ resp'.status = 400
       /\ resp'.message = "Validation failed"
       /\ queries' = << >>
       /\ jobs' = jobs /\ applications' = applications /\ savedJobs' = savedJobs
       /\ viewTasks' = viewTasks]_vars

\* C14's case: a page size of 51 on GET / is rejected, not clamped to 50.
C14_Witness ==
  /\ req.route = "list"
  /\ req.limit = Some("51")
  /\ resp.status = 400
  /\ queries = << >>

\* The message of the 500 response of each route.
FixedMessage(route) ==
  CASE route = "list" -> "Failed to get jobs"
    [] route = "search" -> "Failed to search jobs"
    [] route = "company" -> "Failed to get company jobs"
    [] route = "detail" -> "Failed to get job details"
    [] route = "trending" -> "Failed to get trending jobs"

\* C15: a listing, detail or trending request is answered 500 exactly when
\* one of its statements failed; the failed statement is the last one the
\* handler sent, and the response is the status and the route's fixed
\* message, with no data.
C15_BackendFailureAllOrNothing ==
  /\ resp.status = 500 =>
       /\ Len(queries) >= 1
       /\ ~queries[Len(queries)].ok
       /\ \A i \in 1 .. Len(queries) - 1 : queries[i].ok
       /\ resp = [status |-> 500, message |-> FixedMessage(req.route)]
  /\ (\E i \in 1 .. Len(queries) : ~queries[i].ok) => resp.status = 500

\* C15's case: the third statement of a detail fetch failed.
C15_Witness ==
  /\ req.route = "detail"
  /\ resp.status = 500
  /\ queries = <<Ran("job"), Ran("skills"), Failed("similar")>>


(***************************************************************************)
(* Claims checked under SpecTrend.  Scores are in tenths.                  *)
(***************************************************************************)
\* A trending request has been answered with listings.
Trended == req.route = "trending" /\ resp.status = 200

\* C16: a trending response holds at most `limit` listings; each is active
\* and posted within the last 30 days; they are in descending order of
\* 0.7 * views_count + 0.3 * current_applications, and of posted_date among
\* equal scores; every listing left out that is active and of the last 30
\* days has a score no higher than any returned one; and no view-count
\* update is dispatched and no row written.
C16_TrendingRanked ==
  Trended =>
    LET items == resp.data
        score(x) == 7 * x.views_count + 3 * x.current_applications
    IN  /\ Len(items) <= Val(TrendLimit(req))
        /\ \A i \in 1 .. Len(items) :
             /\ jobs[items[i].job_id].status = "active"
             /\ jobs[items[i].job_id].posted_date >= Today - 30
        /\ \A i, k \in 1 .. Len(items) :
             i < k =>
               \/ score(items[i]) > score(items[k])
               \/ /\ score(items[i]) = score(items[k])
                  /\ items[i].posted_date >= items[k].posted_date
        /\ \A id \in JobIds :
             (/\ jobs[id].status = "active"
              /\ jobs[id].posted_date >= Today - 30
              /\ \A i \in 1 .. Len(items) : items[i].job_id # id)
             => \A i \in 1 .. Len(items) : score(jobs[id]) <= score(items[i])
        /\ viewBudget = MaxViews
        /\ \A ids \in SUBSET JobIds : viewTasks[ids] = 0
        /\ \A id \in JobIds : jobs[id] \in TrendRows
        /\ \A k \in DOMAIN applications : applications[k] = 0 /\ savedJobs[k] = 0

\* C16's case: one listing returned, another eligible one with a lower
\* score left out.
C16_Witness ==
  /\ Trended
  /\ Len(resp.data) = 1
  /\ \E id \in JobIds :
       /\ id # resp.data[1].job_id
       /\ jobs[id].status = "active"
       /\ jobs[id].posted_date >= Today - 30
       /\ TrendScore(jobs[id]) < TrendScore(jobs[resp.data[1].job_id])

\* The listing of the example with the given counters is at position i.
ExampleAt(i, views, apps) ==
  /\ i \in 1 .. Len(resp.data)
  /\ resp.data[i].views_count = views
  /\ resp.data[i].current_applications = apps

\* C17 (as the code computes it): of two returned listings with (views 100,
\* applications 10) and (views 80, applications 40), the scores are 73.0
\* and 68.0, and the first comes before the second.
C17_ExampleScores ==
  Trended =>
    \A i, k \in 1 .. Len(resp.data) :
       (ExampleAt(i, 100, 10) /\ ExampleAt(k, 80, 40)) =>
         /\ TrendScore(jobs[resp.data[i].job_id]) = 730
         /\ TrendScore(jobs[resp.data[k].job_id]) = 680
         /\ i < k

\* C17's case: both listings of the example are returned.
C17_Witness ==
  /\ Trended
  /\ ExampleAt(1, 100, 10)
  /\ ExampleAt(2, 80, 40)

\* C17 as stated: the scores of the two listings are 82.0 and 68.0, and the
\* first ranks higher.
C17_ExampleScoresAsStated ==
  Trended =>
    \A i, k \in 1 .. Len(resp.data) :
       (ExampleAt(i, 100, 10) /\ ExampleAt(k, 80, 40)) =>
         /\ TrendScore(jobs[resp.data[i].job_id]) = 820
         /\ TrendScore(jobs[resp.data[k].job_id]) = 680
         /\ i < k


(***************************************************************************)
(* Claims checked under SpecOrder.                                         *)
(***************************************************************************)
\* The best field in which the listing id matches the keyword: 1 the title,
\* 2 the company name, 3 the description, 4 none of the three.
MatchTier(id, kw) ==
  LET row == jobs[id]
  IN  IF Like(row.title, kw) THEN 1
      ELSE IF Like(Some(Companies[row.company_id].company_name), kw) THEN 2
      ELSE IF Like(row.description, kw) THEN 3
      ELSE 4

\* An advanced search sorted by relevance has been answered with a page.
RelevanceSearched ==
  /\ req.route = "search"
  /\ Succeeded
  /\ (IsNull(req.sort_by) \/ Val(req.sort_by) = "relevance")

\* C18: in an advanced search sorted by relevance with keywords, a listing
\* of a better match tier (title, then company name, then description, then
\* none of the three) comes before every listing of a worse one, and
\* listings of one tier are in descending posted_date order; without
\* keywords the listings are in descending posted_date order.
C18_RelevanceOrder ==
  RelevanceSearched =>
    \A i, k \in 1 .. Len(resp.jobs) :
       i < k =>
         LET a == resp.jobs[i]
             b == resp.jobs[k]
         IN  IF TruthyText(req.keywords)
             THEN LET ta == MatchTier(a.job_id, Val(req.keywords))
                      tb == MatchTier(b.job_id, Val(req.keywords))
                  IN  \/ ta < tb
                      \/ ta = tb /\ a.posted_date >= b.posted_date
             ELSE a.posted_date >= b.posted_date

\* C18's case: a listing matching in the company name comes before a newer
\* listing matching only in the description.
C18_Witness ==
  /\ RelevanceSearched
  /\ TruthyText(req.keywords)
  /\ Len(resp.jobs) = 2
  /\ MatchTier(resp.jobs[1].job_id, Val(req.keywords)) = 2
  /\ MatchTier(resp.jobs[2].job_id, Val(req.keywords)) = 3
  /\ resp.jobs[1].posted_date < resp.jobs[2].posted_date


\* C19: in every successful response of GET / and POST /search, two
\* listings that the request's sort keys do not separate are in descending
\* posted_date order, and in ascending job_id order when their posted_date
\* is equal too.
C19_TotalOrder ==
  (Succeeded /\ req.route \in {"list", "search"}) =>
    \A i, k \in 1 .. Len(resp.jobs) :
       i < k =>
         LET a == Joined(jobs, resp.jobs[i].job_id)
             b == Joined(jobs, resp.jobs[k].job_id)
             keys == OrderByOf(req)
             p == ParamsOf(req)
         IN  \/ RowBefore(<<keys[1]>>, a, b, p)
             \/ /\ ~RowBefore(<<keys[1]>>, b, a, p)
                /\ \/ a.j.posted_date > b.j.posted_date
                   \/ /\ a.j.posted_date = b.j.posted_date
                      /\ a.job_id < b.job_id

\* The request sorts by a salary key: sort_by = salary_min on GET /,
\* sort_by = salary on POST /search.
SalarySorted ==
  /\ Succeeded
  /\ ~IsNull(req.sort_by)
  /\ \/ req.route = "list" /\ Val(req.sort_by) = "salary_min"
     \/ req.route = "search" /\ Val(req.sort_by) = "salary"

\* C20: in every successful response to a request sorted by a salary key,
\* whatever its sort_order, a listing never comes after one of a lower
\* salary_max, nor after one of the same salary_max and a lower salary_min.
C20_SalaryHighestFirst ==
  SalarySorted =>
    \A i, k \in 1 .. Len(resp.jobs) :
       i < k =>
         LET a == resp.jobs[i]
             b == resp.jobs[k]
         IN  /\ ~NullableLess(a.salary_max, b.salary_max)
             /\ (a.salary_max = b.salary_max
                   => ~NullableLess(a.salary_min, b.salary_min))


(***************************************************************************)
(* Claims checked under SpecConc: the caller's identity and the result.    *)
(***************************************************************************)
\* The request q as an anonymous caller sends it.
Anonymous(q) == [q EXCEPT !.user = Null]

\* The recordset of q on GET / or POST /search for the row order `order`.
RecordsetOf(q, order) ==
  IF q.route = "list" THEN ListRecordset(q, order) ELSE SearchRecordset(q, order)

\* C21: with no write since the response, the response to any caller of
\* GET / or POST /search is a response the same request gets from the same
\* store when sent anonymously: same listings in the same order, same
\* number of items, same pagination (total included), same value in every
\* field; the only fields added are has_applied and is_saved.
C21_AnnotationAdditive ==
  (Succeeded /\ ~dirty /\ req.route \in {"list", "search"}) =>
    \E order \in ValidOrders(jobs, Matching(Anonymous(req)),
                             OrderByOf(Anonymous(req)), ParamsOf(Anonymous(req))) :
       LET base == RecordsetOf(Anonymous(req), order)
       IN  /\ resp.pagination = Page(base, ReqPage(req), ReqLimit(req)).pagination
           /\ Len(resp.jobs) = Len(base)
           /\ \A i \in 1 .. Len(base) :
                /\ DOMAIN base[i] \subseteq DOMAIN resp.jobs[i]
                /\ DOMAIN resp.jobs[i] \ DOMAIN base[i] \subseteq {"has_applied", "is_saved"}
                /\ \A f \in DOMAIN base[i] : resp.jobs[i][f] = base[i][f]

\* C21's case: a jobseeker's search returned the two listings, one of them
\* applied to.
C21_Witness ==
  /\ Succeeded /\ ~dirty /\ req.route \in {"list", "search"}
  /\ IsJobseeker(req)
  /\ Len(resp.jobs) = 2
  /\ \E i \in 1 .. 2 : resp.jobs[i].has_applied > 0
  /\ \E i \in 1 .. 2 : resp.jobs[i].has_applied = 0


(***************************************************************************)
(* Claims checked under SpecCount.                                         *)
(***************************************************************************)
\* The listings the response r to a request of route `route` returns.
Returned(route, r) ==
  IF r.status # 200 THEN {}
  ELSE IF route = "detail" THEN {r.data.job_id}
  ELSE IdSet(r.jobs)

\* C22: while the store admits updates, every step in which a listing
\* fetch, an advanced search or a detail fetch is answered dispatches
\* exactly one view-count update, for exactly the listings the response
\* returns, when it returns any, and none otherwise.
C22_EveryFetchCountsViews ==
  [][(/\ viewBudget > 0
      /\ resp' # resp
      /\ \A ids \in SUBSET JobIds : viewTasks'[ids] >= viewTasks[ids])
     => \A ids \in SUBSET JobIds :
          viewTasks'[ids] =
            viewTasks[ids]
            + (IF ids # {} /\ ids = Returned(req'.route, resp') THEN 1 ELSE 0)]_vars

\* C23: every step raises the views_count of each listing by the number
\* of updates naming it that complete in the step, whatever fetches and
\* updates came before, and changes no other column; so N completed updates
\* of listing X leave its counter N higher and the other counters as they
\* were.
C23_IncrementsAdditive ==
  [][\A id \in JobIds :
       jobs'[id] =
         [jobs[id] EXCEPT !.views_count =
            @ + Cardinality({ids \in SUBSET JobIds :
                               id \in ids /\ viewTasks'[ids] < viewTasks[ids]})]]_vars

\* C23's case: two updates of one listing were applied, and the counter of
\* the other listing is what it was.
C23_Witness ==
  /\ viewBudget = MaxViews - 1
  /\ \A ids \in SUBSET JobIds : viewTasks[ids] = 0
  /\ jobs[1].views_count \in {2, 5}
  /\ jobs[2].views_count \in {0, 3}


(***************************************************************************)
(* Claims checked under SpecFilter: the statement text.                    *)
(***************************************************************************)
\* The search statement of a request of GET / or POST /search.
StatementOf(q) ==
  IF q.route = "list" THEN ListStatement(q) ELSE SearchStatement(q)

\* The text filters of the two routes, and texts to put in them.
TextFilters(q) ==
  IF q.route = "list" THEN {"search", "location", "industry"}
  ELSE {"keywords", "location"}
OtherTexts == {<<1>>, <<4>>, <<2, 3>>, <<5, 5, 5>>}

\* C24: when GET / or POST /search has sent its search statement, the
\* same request with another non-empty text in any text filter it carries
\* (non-empty) has the same statement text, and the same parameter bindings
\* but for that filter's, which carries the new text; and a request of POST
\* /search with other values in a multi-valued filter of the same length
\* has the same statement text.
C24_StatementTextFixed ==
  (queries # << >> /\ req.route \in {"list", "search"}) =>
    /\ \A f \in TextFilters(req), v \in OtherTexts :
         TruthyText(req[f]) =>
           LET other == [req EXCEPT ![f] = Some(v)]
           IN  /\ StatementOf(other) = StatementOf(req)
               /\ DOMAIN ParamsOf(other) = DOMAIN ParamsOf(req)
               /\ ParamsOf(other)[f] = v
               /\ \A n \in DOMAIN ParamsOf(req) \ {f} :
                    ParamsOf(other)[n] = ParamsOf(req)[n]
    /\ (req.route = "search" /\ NonEmptyArray(req.job_types)) =>
         \A t \in {"Contract", "x", "1 OR 1"} :
            StatementOf([req EXCEPT !.job_types =
                           Some([i \in 1 .. Len(Val(@)) |-> t])])
              = StatementOf(req)

\* C24's case: a listing fetch with a search text and a location text has
\* run its statement.
C24_Witness ==
  /\ req.route = "list"
  /\ queries = <<Ran("jobs")>>
  /\ TruthyText(req.search)
  /\ TruthyText(req.location)


(***************************************************************************)
(* Claims checked under SpecApply.                                         *)
(***************************************************************************)
\* The call c has been answered with the given status.
Answered_(c, status) ==
  calls[c].pc = "done" /\ Val(calls[c].res).status = status

\* C25: in every reachable state there is at most one Applications row for
\* each listing and jobseeker.
C25_OneApplicationPerPair ==
  \A k \in DOMAIN applications : applications[k] <= 1

\* The Applications rows of the listing id.
RECURSIVE ApplicationsOf(_, _)
ApplicationsOf(id, seekers) ==
  IF seekers = {} THEN 0
  ELSE LET s == CHOOSE x \in seekers : TRUE
       IN  applications[<<id, s>>] + ApplicationsOf(id, seekers \ {s})

\* C26: for every listing with max_applications set, the number of
\* applications accepted is at most max_applications.
C26_MaxApplicationsRespected ==
  \A id \in JobIds :
     TruthyNumber(jobs[id].max_applications) =>
       ApplicationsOf(id, Seekers) <= Val(jobs[id].max_applications)

\* C27: no listing that the listing fetch returns is refused by an apply
\* request of the same instant because its deadline has passed.
C27_ListedMeansOpenForApply ==
  (Succeeded /\ req.route = "list") =>
    \A i \in 1 .. Len(resp.jobs), c \in 1 .. MaxCalls :
       (Answered_(c, 400) /\ calls[c].jobId \in DigitStrings
        /\ ToNumber(calls[c].jobId) = resp.jobs[i].job_id)
       => Val(calls[c].res).message # "Application deadline has passed"


(***************************************************************************)
(* Claims checked under SpecConc: the save toggle.                         *)
(***************************************************************************)
\* The save requests sent for the listing and jobseeker k.
SavesOf(k) ==
  {c \in 1 .. MaxCalls :
     /\ calls[c].kind = "save"
     /\ calls[c].jobId \in DigitStrings
     /\ <<ToNumber(calls[c].jobId), calls[c].seeker>> = k}

\* C28: when exactly two save requests were sent for one listing and
\* jobseeker and both were answered 200, in sequence or overlapping, the
\* pair is unsaved as it was before them, one response says saved and the
\* other removed.
C28_SaveToggleInvolution ==
  \A k \in DOMAIN savedJobs :
     (Cardinality(SavesOf(k)) = 2 /\ \A c \in SavesOf(k) : Answered_(c, 200)) =>
       /\ savedJobs[k] = 0
       /\ \E c, d \in SavesOf(k) :
            /\ Val(calls[c].res).message = "Job saved successfully"
            /\ Val(calls[d].res).message = "Job removed from saved jobs"


(***************************************************************************)
(* Claims checked under SpecSkills and SpecPool.                           *)
(***************************************************************************)
\* C29: when the POST /skills request has ended with 200 or with 500, the
\* stored skills are exactly the submitted ones or exactly those stored
\* before the request.
C29_SkillsReplacedAtomically ==
  (skills.pc = "done" /\ skills.res.status \in {200, 500}) =>
    \/ skills.stored = {Val(skills.body)[i] : i \in 1 .. Len(Val(skills.body))}
    \/ skills.stored = skills.before

\* C30: at most one ConnectionPool has been constructed, and all callers
\* that await a connection promise await the same one, the one poolPromise
\* holds.
C30_OnePool ==
  /\ Len(db.promises) <= 1
  /\ \A c \in DbCallers :
       db.callers[c].awaits # 0 => db.callers[c].awaits = db.poolPromise

\* C30's case: the first caller failed with the connection, and two later
\* callers, one of connectDB and one of executeQuery, await or have awaited
\* the promise the first one created.
C30_Witness ==
  /\ db.promises = <<"rejected">>
  /\ db.callers[1].pc = "failed"
  /\ \E c, d \in DbCallers \ {1} :
       /\ db.callers[c].entry = "connectDB" /\ db.callers[c].awaits = 1
       /\ db.callers[d].entry = "executeQuery" /\ db.callers[d].awaits = 1

=============================================================================
